---- MODULE Spec2Model ----
(***************************************************************************)
(* tinyblend: schema-driven reader of .blend files.                        *)
(*                                                                         *)
(* The model follows src/tinyblend.py: BlenderFile (the facade),           *)
(* BlenderObjectFactory (one per listed struct type), the decoder classes  *)
(* synthesized by _build_objects (subclasses of BlenderObject), the        *)
(* records they decode, the AddressLookup descriptors of pointer fields    *)
(* and the two process-wide weak caches keyed by version.                  *)
(*                                                                         *)
(* Python indices are 0-based; At(s, i) reads a sequence the Python way.   *)
(* Text that the code inspects character by character (field names) is a   *)
(* sequence of one-character strings; type names are only ever compared    *)
(* whole and stay strings.                                                 *)
(***************************************************************************)
EXTENDS Integers, Sequences, FiniteSets, TLC

\* ------------------------------------------------------------------ bounds
\* how many factories / records / decoder classes the caller keeps in
\* variables at the same time
MaxHeldFac == 2
MaxHeldRec == 2
MaxHeldCls == 1

\* how many calls the caller makes in one run
MaxOps == 5

\* entries of the directory the walk of a file keeps track of
MaxHeads == 4

\* ------------------------------------------------------------- primitives
At(s, i) == s[i + 1]

Range(s) == {s[i] : i \in 1..Len(s)}

RECURSIVE SumSeq(_)
SumSeq(s) == IF s = <<>> THEN 0 ELSE Head(s) + SumSeq(Tail(s))

RECURSIVE ProdSeq(_)
ProdSeq(s) == IF s = <<>> THEN 1 ELSE Head(s) * ProdSeq(Tail(s))

RECURSIVE Flatten(_)
Flatten(ss) == IF ss = <<>> THEN <<>> ELSE Head(ss) \o Flatten(Tail(ss))

MinOf(S) == CHOOSE x \in S : \A y \in S : x <= y

\* the element of a set of one element.  In The({F(x) : x \in {e}}) the value
\* of e is computed once, and F is applied to that value.
The(S) == CHOOSE x \in S : TRUE

\* smallest positive id not in use: a new object never shares its identity
\* with an object that still exists
FreshId(used) == MinOf({i \in 1..(Cardinality(used) + 1) : i \notin used})

DigitChars == <<"0", "1", "2", "3", "4", "5", "6", "7", "8", "9">>

IsDigit(c) == c \in Range(DigitChars)

DigitVal(c) == CHOOSE d \in 0..9 : DigitChars[d + 1] = c

\* int(s) for a string of decimal digits
RECURSIVE IntOfStr(_)
IntOfStr(s) ==
    IF s = <<>> THEN 0
    ELSE 10 * IntOfStr(SubSeq(s, 1, Len(s) - 1)) + DigitVal(s[Len(s)])

\* str(n) for n >= 0
RECURSIVE StrOfInt(_)
StrOfInt(n) ==
    IF n < 10 THEN <<DigitChars[n + 1]>>
    ELSE StrOfInt(n \div 10) \o <<DigitChars[(n % 10) + 1]>>

\* length of the longest run of digits of s that starts at position i
RECURSIVE DigitRun(_, _)
DigitRun(s, i) ==
    IF i <= Len(s) /\ IsDigit(s[i]) THEN 1 + DigitRun(s, i + 1) ELSE 0

\* str.encode() of the characters that occur in record names
OrdTable == [a |-> 97, b |-> 98, c |-> 99, g |-> 103, s |-> 115, t |-> 116,
             z |-> 122]

Encode(name) == [i \in 1..Len(name) |-> OrdTable[name[i]]]

\* ------------------------------------------------------------ python values
\* A decoded value carries its Python type, because AddressLookup.__get__
\* tests it: int, bytes, tuple, namedtuple ("nt", what NamedStruct.unpack
\* returns per element when the data holds several structs).
IntV(n)   == [t |-> "int",   v |-> <<n>>]
BytesV(b) == [t |-> "bytes", v |-> b]
TupleV(s) == [t |-> "tuple", v |-> s]
NtV(s)    == [t |-> "nt",    v |-> s]
FloatV(b) == [t |-> "float", v |-> b]

IsSeqV(a) == a.t \in {"tuple", "nt"}

\* == between two decoded values
RECURSIVE PyEq(_, _)
PyEq(a, b) ==
    IF IsSeqV(a) /\ IsSeqV(b)
    THEN /\ Len(a.v) = Len(b.v)
         /\ \A i \in 1..Len(a.v) : PyEq(a.v[i], b.v[i])
    ELSE IF a.t # b.t THEN FALSE
    ELSE a.v = b.v

\* ---------------------------------------------------------------- the files
\* Two files are at hand.  Both were written by the same producer build
\* (version 2.7.7, 32-bit pointers, little endian) and carry the same SDNA:
\*   ID    { ID *next; char name[4]; }
\*   World { ID id; short aodist; rctf *mtex[2]; }
\*   Scene { ID id; World *world; short flag; short layer; }
\*   rctf  { short xmin; short xmax; }
\*   Group { ID id; }
\*   Link  { short flag; ID *from; }
\* File 1 holds two World blocks of the same name, two Scene blocks, one
\* block of two rctf structs and one Group block;
\* file 2 holds one World block.  Neither holds a Link block.
Files == {1, 2}

\* what the handle of the file reads, byte by byte
F1Bytes ==
    << 66, 76, 69, 78, 68, 69, 82, 95, 118, 50, 55, 55, 87, 79, 0, 0, 18, 0, 0, 0,
       16, 0, 0, 0, 1, 0, 0, 0, 1, 0, 0, 0, 153, 0, 0, 0, 87, 79, 97, 0,
       5, 0, 80, 0, 0, 0, 0, 0, 0, 0, 87, 79, 0, 0, 18, 0, 0, 0, 32, 0,
       0, 0, 1, 0, 0, 0, 1, 0, 0, 0, 112, 0, 0, 0, 87, 79, 97, 0, 7, 0,
       0, 0, 0, 0, 64, 0, 0, 0, 83, 67, 0, 0, 16, 0, 0, 0, 48, 0, 0, 0,
       2, 0, 0, 0, 1, 0, 0, 0, 64, 0, 0, 0, 83, 67, 115, 0, 16, 0, 0, 0,
       1, 0, 1, 0, 83, 67, 0, 0, 16, 0, 0, 0, 64, 0, 0, 0, 2, 0, 0, 0,
       1, 0, 0, 0, 0, 0, 0, 0, 83, 67, 116, 0, 80, 0, 0, 0, 1, 0, 2, 0,
       68, 65, 84, 65, 8, 0, 0, 0, 80, 0, 0, 0, 3, 0, 0, 0, 2, 0, 0, 0,
       1, 0, 2, 0, 3, 0, 4, 0, 71, 82, 0, 0, 8, 0, 0, 0, 112, 0, 0, 0,
       4, 0, 0, 0, 1, 0, 0, 0, 0, 0, 0, 0, 71, 82, 103, 0, 68, 78, 65, 49,
       248, 0, 0, 0, 0, 0, 0, 0, 0, 0, 0, 0, 1, 0, 0, 0, 83, 68, 78, 65,
       78, 65, 77, 69, 11, 0, 0, 0, 42, 110, 101, 120, 116, 0, 110, 97, 109, 101, 91, 52,
       93, 0, 105, 100, 0, 42, 119, 111, 114, 108, 100, 0, 102, 108, 97, 103, 0, 97, 111, 100,
       105, 115, 116, 0, 120, 109, 105, 110, 0, 120, 109, 97, 120, 0, 108, 97, 121, 101, 114, 0,
       42, 109, 116, 101, 120, 91, 50, 93, 0, 42, 102, 114, 111, 109, 0, 0, 84, 89, 80, 69,
       9, 0, 0, 0, 99, 104, 97, 114, 0, 115, 104, 111, 114, 116, 0, 105, 110, 116, 0, 73,
       68, 0, 87, 111, 114, 108, 100, 0, 83, 99, 101, 110, 101, 0, 114, 99, 116, 102, 0, 71,
       114, 111, 117, 112, 0, 76, 105, 110, 107, 0, 0, 0, 84, 76, 69, 78, 1, 0, 2, 0,
       4, 0, 8, 0, 18, 0, 16, 0, 4, 0, 8, 0, 6, 0, 0, 0, 83, 84, 82, 67,
       6, 0, 0, 0, 3, 0, 2, 0, 3, 0, 0, 0, 0, 0, 1, 0, 4, 0, 3, 0,
       3, 0, 2, 0, 1, 0, 5, 0, 6, 0, 9, 0, 5, 0, 4, 0, 3, 0, 2, 0,
       4, 0, 3, 0, 1, 0, 4, 0, 1, 0, 8, 0, 6, 0, 2, 0, 1, 0, 6, 0,
       1, 0, 7, 0, 7, 0, 1, 0, 3, 0, 2, 0, 8, 0, 2, 0, 1, 0, 4, 0,
       3, 0, 10, 0, 69, 78, 68, 66, 0, 0, 0, 0, 0, 0, 0, 0, 0, 0, 0, 0,
       0, 0, 0, 0 >>

\* what the handle of the file reads, byte by byte
F2Bytes ==
    << 66, 76, 69, 78, 68, 69, 82, 95, 118, 50, 55, 55, 87, 79, 0, 0, 18, 0, 0, 0,
       16, 0, 0, 0, 1, 0, 0, 0, 1, 0, 0, 0, 0, 0, 0, 0, 87, 79, 99, 0,
       9, 0, 0, 0, 0, 0, 0, 0, 0, 0, 68, 78, 65, 49, 248, 0, 0, 0, 0, 0,
       0, 0, 0, 0, 0, 0, 1, 0, 0, 0, 83, 68, 78, 65, 78, 65, 77, 69, 11, 0,
       0, 0, 42, 110, 101, 120, 116, 0, 110, 97, 109, 101, 91, 52, 93, 0, 105, 100, 0, 42,
       119, 111, 114, 108, 100, 0, 102, 108, 97, 103, 0, 97, 111, 100, 105, 115, 116, 0, 120, 109,
       105, 110, 0, 120, 109, 97, 120, 0, 108, 97, 121, 101, 114, 0, 42, 109, 116, 101, 120, 91,
       50, 93, 0, 42, 102, 114, 111, 109, 0, 0, 84, 89, 80, 69, 9, 0, 0, 0, 99, 104,
       97, 114, 0, 115, 104, 111, 114, 116, 0, 105, 110, 116, 0, 73, 68, 0, 87, 111, 114, 108,
       100, 0, 83, 99, 101, 110, 101, 0, 114, 99, 116, 102, 0, 71, 114, 111, 117, 112, 0, 76,
       105, 110, 107, 0, 0, 0, 84, 76, 69, 78, 1, 0, 2, 0, 4, 0, 8, 0, 18, 0,
       16, 0, 4, 0, 8, 0, 6, 0, 0, 0, 83, 84, 82, 67, 6, 0, 0, 0, 3, 0,
       2, 0, 3, 0, 0, 0, 0, 0, 1, 0, 4, 0, 3, 0, 3, 0, 2, 0, 1, 0,
       5, 0, 6, 0, 9, 0, 5, 0, 4, 0, 3, 0, 2, 0, 4, 0, 3, 0, 1, 0,
       4, 0, 1, 0, 8, 0, 6, 0, 2, 0, 1, 0, 6, 0, 1, 0, 7, 0, 7, 0,
       1, 0, 3, 0, 2, 0, 8, 0, 2, 0, 1, 0, 4, 0, 3, 0, 10, 0, 69, 78,
       68, 66, 0, 0, 0, 0, 0, 0, 0, 0, 0, 0, 0, 0, 0, 0, 0, 0 >>

\* file 2 as written by a 64-bit little-endian producer
F3Bytes ==
    << 66, 76, 69, 78, 68, 69, 82, 45, 118, 50, 55, 55, 87, 79, 0, 0, 30, 0, 0, 0,
       16, 0, 0, 0, 0, 0, 0, 0, 1, 0, 0, 0, 1, 0, 0, 0, 0, 0, 0, 0,
       0, 0, 0, 0, 87, 79, 99, 0, 9, 0, 0, 0, 0, 0, 0, 0, 0, 0, 0, 0,
       0, 0, 0, 0, 0, 0, 68, 78, 65, 49, 248, 0, 0, 0, 0, 0, 0, 0, 0, 0,
       0, 0, 0, 0, 0, 0, 1, 0, 0, 0, 83, 68, 78, 65, 78, 65, 77, 69, 11, 0,
       0, 0, 42, 110, 101, 120, 116, 0, 110, 97, 109, 101, 91, 52, 93, 0, 105, 100, 0, 42,
       119, 111, 114, 108, 100, 0, 102, 108, 97, 103, 0, 97, 111, 100, 105, 115, 116, 0, 120, 109,
       105, 110, 0, 120, 109, 97, 120, 0, 108, 97, 121, 101, 114, 0, 42, 109, 116, 101, 120, 91,
       50, 93, 0, 42, 102, 114, 111, 109, 0, 0, 84, 89, 80, 69, 9, 0, 0, 0, 99, 104,
       97, 114, 0, 115, 104, 111, 114, 116, 0, 105, 110, 116, 0, 73, 68, 0, 87, 111, 114, 108,
       100, 0, 83, 99, 101, 110, 101, 0, 114, 99, 116, 102, 0, 71, 114, 111, 117, 112, 0, 76,
       105, 110, 107, 0, 0, 0, 84, 76, 69, 78, 1, 0, 2, 0, 4, 0, 12, 0, 30, 0,
       24, 0, 4, 0, 12, 0, 10, 0, 0, 0, 83, 84, 82, 67, 6, 0, 0, 0, 3, 0,
       2, 0, 3, 0, 0, 0, 0, 0, 1, 0, 4, 0, 3, 0, 3, 0, 2, 0, 1, 0,
       5, 0, 6, 0, 9, 0, 5, 0, 4, 0, 3, 0, 2, 0, 4, 0, 3, 0, 1, 0,
       4, 0, 1, 0, 8, 0, 6, 0, 2, 0, 1, 0, 6, 0, 1, 0, 7, 0, 7, 0,
       1, 0, 3, 0, 2, 0, 8, 0, 2, 0, 1, 0, 4, 0, 3, 0, 10, 0, 69, 78,
       68, 66, 0, 0, 0, 0, 0, 0, 0, 0, 0, 0, 0, 0, 0, 0, 0, 0, 0, 0,
       0, 0 >>

\* file 2 as written by a 32-bit big-endian producer
F4Bytes ==
    << 66, 76, 69, 78, 68, 69, 82, 95, 86, 50, 55, 55, 87, 79, 0, 0, 0, 0, 0, 18,
       0, 0, 0, 16, 0, 0, 0, 1, 0, 0, 0, 1, 0, 0, 0, 0, 87, 79, 99, 0,
       0, 9, 0, 0, 0, 0, 0, 0, 0, 0, 68, 78, 65, 49, 0, 0, 0, 248, 0, 0,
       0, 0, 0, 0, 0, 0, 0, 0, 0, 1, 83, 68, 78, 65, 78, 65, 77, 69, 0, 0,
       0, 11, 42, 110, 101, 120, 116, 0, 110, 97, 109, 101, 91, 52, 93, 0, 105, 100, 0, 42,
       119, 111, 114, 108, 100, 0, 102, 108, 97, 103, 0, 97, 111, 100, 105, 115, 116, 0, 120, 109,
       105, 110, 0, 120, 109, 97, 120, 0, 108, 97, 121, 101, 114, 0, 42, 109, 116, 101, 120, 91,
       50, 93, 0, 42, 102, 114, 111, 109, 0, 0, 84, 89, 80, 69, 0, 0, 0, 9, 99, 104,
       97, 114, 0, 115, 104, 111, 114, 116, 0, 105, 110, 116, 0, 73, 68, 0, 87, 111, 114, 108,
       100, 0, 83, 99, 101, 110, 101, 0, 114, 99, 116, 102, 0, 71, 114, 111, 117, 112, 0, 76,
       105, 110, 107, 0, 0, 0, 84, 76, 69, 78, 0, 1, 0, 2, 0, 4, 0, 8, 0, 18,
       0, 16, 0, 4, 0, 8, 0, 6, 0, 0, 83, 84, 82, 67, 0, 0, 0, 6, 0, 3,
       0, 2, 0, 3, 0, 0, 0, 0, 0, 1, 0, 4, 0, 3, 0, 3, 0, 2, 0, 1,
       0, 5, 0, 6, 0, 9, 0, 5, 0, 4, 0, 3, 0, 2, 0, 4, 0, 3, 0, 1,
       0, 4, 0, 1, 0, 8, 0, 6, 0, 2, 0, 1, 0, 6, 0, 1, 0, 7, 0, 7,
       0, 1, 0, 3, 0, 2, 0, 8, 0, 2, 0, 1, 0, 4, 0, 3, 0, 10, 69, 78,
       68, 66, 0, 0, 0, 0, 0, 0, 0, 0, 0, 0, 0, 0, 0, 0, 0, 0 >>

\* file 2 as written by a 64-bit big-endian producer
F5Bytes ==
    << 66, 76, 69, 78, 68, 69, 82, 45, 86, 50, 55, 55, 87, 79, 0, 0, 0, 0, 0, 30,
       0, 0, 0, 0, 0, 0, 0, 16, 0, 0, 0, 1, 0, 0, 0, 1, 0, 0, 0, 0,
       0, 0, 0, 0, 87, 79, 99, 0, 0, 9, 0, 0, 0, 0, 0, 0, 0, 0, 0, 0,
       0, 0, 0, 0, 0, 0, 68, 78, 65, 49, 0, 0, 0, 248, 0, 0, 0, 0, 0, 0,
       0, 0, 0, 0, 0, 0, 0, 0, 0, 1, 83, 68, 78, 65, 78, 65, 77, 69, 0, 0,
       0, 11, 42, 110, 101, 120, 116, 0, 110, 97, 109, 101, 91, 52, 93, 0, 105, 100, 0, 42,
       119, 111, 114, 108, 100, 0, 102, 108, 97, 103, 0, 97, 111, 100, 105, 115, 116, 0, 120, 109,
       105, 110, 0, 120, 109, 97, 120, 0, 108, 97, 121, 101, 114, 0, 42, 109, 116, 101, 120, 91,
       50, 93, 0, 42, 102, 114, 111, 109, 0, 0, 84, 89, 80, 69, 0, 0, 0, 9, 99, 104,
       97, 114, 0, 115, 104, 111, 114, 116, 0, 105, 110, 116, 0, 73, 68, 0, 87, 111, 114, 108,
       100, 0, 83, 99, 101, 110, 101, 0, 114, 99, 116, 102, 0, 71, 114, 111, 117, 112, 0, 76,
       105, 110, 107, 0, 0, 0, 84, 76, 69, 78, 0, 1, 0, 2, 0, 4, 0, 12, 0, 30,
       0, 24, 0, 4, 0, 12, 0, 10, 0, 0, 83, 84, 82, 67, 0, 0, 0, 6, 0, 3,
       0, 2, 0, 3, 0, 0, 0, 0, 0, 1, 0, 4, 0, 3, 0, 3, 0, 2, 0, 1,
       0, 5, 0, 6, 0, 9, 0, 5, 0, 4, 0, 3, 0, 2, 0, 4, 0, 3, 0, 1,
       0, 4, 0, 1, 0, 8, 0, 6, 0, 2, 0, 1, 0, 6, 0, 1, 0, 7, 0, 7,
       0, 1, 0, 3, 0, 2, 0, 8, 0, 2, 0, 1, 0, 4, 0, 3, 0, 10, 69, 78,
       68, 66, 0, 0, 0, 0, 0, 0, 0, 0, 0, 0, 0, 0, 0, 0, 0, 0, 0, 0,
       0, 0 >>

\* Files 6 and 7 carry a second SDNA and no data block; the same producer
\* (version 2.7.9, little endian) wrote file 6 with 32-bit and file 7 with
\* 64-bit pointers:
\*   ID   { ID *next; char name[4]; }
\*   rctf { short xmin; short xmax; }
\*   Mat  { ID id; float col[2][3]; rctf *tex[2]; rctf box; Mat **chain;
\*          rctf boxes[2]; }
\*   Node { ID id; Mat mat; void (*func)(); int flag; }

F6Bytes ==
    << 66, 76, 69, 78, 68, 69, 82, 95, 118, 50, 55, 57, 68, 78, 65, 49, 0, 1, 0, 0,
       0, 0, 0, 0, 0, 0, 0, 0, 1, 0, 0, 0, 83, 68, 78, 65, 78, 65, 77, 69,
       13, 0, 0, 0, 42, 110, 101, 120, 116, 0, 110, 97, 109, 101, 91, 52, 93, 0, 105, 100,
       0, 120, 109, 105, 110, 0, 120, 109, 97, 120, 0, 99, 111, 108, 91, 50, 93, 91, 51, 93,
       0, 42, 116, 101, 120, 91, 50, 93, 0, 98, 111, 120, 0, 42, 42, 99, 104, 97, 105, 110,
       0, 98, 111, 120, 101, 115, 91, 50, 93, 0, 109, 97, 116, 0, 40, 42, 102, 117, 110, 99,
       41, 40, 41, 0, 102, 108, 97, 103, 0, 0, 0, 0, 84, 89, 80, 69, 9, 0, 0, 0,
       99, 104, 97, 114, 0, 115, 104, 111, 114, 116, 0, 105, 110, 116, 0, 102, 108, 111, 97, 116,
       0, 118, 111, 105, 100, 0, 73, 68, 0, 114, 99, 116, 102, 0, 77, 97, 116, 0, 78, 111,
       100, 101, 0, 0, 84, 76, 69, 78, 1, 0, 2, 0, 4, 0, 4, 0, 0, 0, 8, 0,
       4, 0, 56, 0, 72, 0, 0, 0, 83, 84, 82, 67, 4, 0, 0, 0, 5, 0, 2, 0,
       5, 0, 0, 0, 0, 0, 1, 0, 6, 0, 2, 0, 1, 0, 3, 0, 1, 0, 4, 0,
       7, 0, 6, 0, 5, 0, 2, 0, 3, 0, 5, 0, 6, 0, 6, 0, 6, 0, 7, 0,
       7, 0, 8, 0, 6, 0, 9, 0, 8, 0, 4, 0, 5, 0, 2, 0, 7, 0, 10, 0,
       4, 0, 11, 0, 2, 0, 12, 0, 69, 78, 68, 66, 0, 0, 0, 0, 0, 0, 0, 0,
       0, 0, 0, 0, 0, 0, 0, 0 >>

F7Bytes ==
    << 66, 76, 69, 78, 68, 69, 82, 45, 118, 50, 55, 57, 68, 78, 65, 49, 0, 1, 0, 0,
       0, 0, 0, 0, 0, 0, 0, 0, 0, 0, 0, 0, 1, 0, 0, 0, 83, 68, 78, 65,
       78, 65, 77, 69, 13, 0, 0, 0, 42, 110, 101, 120, 116, 0, 110, 97, 109, 101, 91, 52,
       93, 0, 105, 100, 0, 120, 109, 105, 110, 0, 120, 109, 97, 120, 0, 99, 111, 108, 91, 50,
       93, 91, 51, 93, 0, 42, 116, 101, 120, 91, 50, 93, 0, 98, 111, 120, 0, 42, 42, 99,
       104, 97, 105, 110, 0, 98, 111, 120, 101, 115, 91, 50, 93, 0, 109, 97, 116, 0, 40, 42,
       102, 117, 110, 99, 41, 40, 41, 0, 102, 108, 97, 103, 0, 0, 0, 0, 84, 89, 80, 69,
       9, 0, 0, 0, 99, 104, 97, 114, 0, 115, 104, 111, 114, 116, 0, 105, 110, 116, 0, 102,
       108, 111, 97, 116, 0, 118, 111, 105, 100, 0, 73, 68, 0, 114, 99, 116, 102, 0, 77, 97,
       116, 0, 78, 111, 100, 101, 0, 0, 84, 76, 69, 78, 1, 0, 2, 0, 4, 0, 4, 0,
       0, 0, 12, 0, 4, 0, 72, 0, 96, 0, 0, 0, 83, 84, 82, 67, 4, 0, 0, 0,
       5, 0, 2, 0, 5, 0, 0, 0, 0, 0, 1, 0, 6, 0, 2, 0, 1, 0, 3, 0,
       1, 0, 4, 0, 7, 0, 6, 0, 5, 0, 2, 0, 3, 0, 5, 0, 6, 0, 6, 0,
       6, 0, 7, 0, 7, 0, 8, 0, 6, 0, 9, 0, 8, 0, 4, 0, 5, 0, 2, 0,
       7, 0, 10, 0, 4, 0, 11, 0, 2, 0, 12, 0, 69, 78, 68, 66, 0, 0, 0, 0,
       0, 0, 0, 0, 0, 0, 0, 0, 0, 0, 0, 0, 0, 0, 0, 0 >>

\* the tables _parse_index returns for file 6
SdnaIndex6 ==
    [field_names |-> <<
        <<"*", "n", "e", "x", "t">>,
        <<"n", "a", "m", "e", "[", "4", "]">>,
        <<"i", "d">>,
        <<"x", "m", "i", "n">>,
        <<"x", "m", "a", "x">>,
        <<"c", "o", "l", "[", "2", "]", "[", "3", "]">>,
        <<"*", "t", "e", "x", "[", "2", "]">>,
        <<"b", "o", "x">>,
        <<"*", "*", "c", "h", "a", "i", "n">>,
        <<"b", "o", "x", "e", "s", "[", "2", "]">>,
        <<"m", "a", "t">>,
        <<"(", "*", "f", "u", "n", "c", ")", "(", ")">>,
        <<"f", "l", "a", "g">> >>,
     type_names |-> <<"char", "short", "int", "float", "void", "ID", "rctf", "Mat", "Node">>,
     type_sizes |-> <<1, 2, 4, 4, 0, 8, 4, 56, 72>>,
     structures |-> <<
        [index |-> 5, fields |-> <<[index_type |-> 5, index_name |-> 0],
            [index_type |-> 0, index_name |-> 1]>>],
        [index |-> 6, fields |-> <<[index_type |-> 1, index_name |-> 3],
            [index_type |-> 1, index_name |-> 4]>>],
        [index |-> 7, fields |-> <<[index_type |-> 5, index_name |-> 2],
            [index_type |-> 3, index_name |-> 5],
            [index_type |-> 6, index_name |-> 6],
            [index_type |-> 6, index_name |-> 7],
            [index_type |-> 7, index_name |-> 8],
            [index_type |-> 6, index_name |-> 9]>>],
        [index |-> 8, fields |-> <<[index_type |-> 5, index_name |-> 2],
            [index_type |-> 7, index_name |-> 10],
            [index_type |-> 4, index_name |-> 11],
            [index_type |-> 2, index_name |-> 12]>>] >>]

\* and for file 7: the sizes of the structs that hold pointers differ
SdnaIndex7 ==
    [SdnaIndex6 EXCEPT !.type_sizes = <<1, 2, 4, 4, 0, 12, 4, 72, 96>>]

\* file 4 is file 2 as the big-endian build of the same version wrote it
FileBytes(f) ==
    IF f = 1 THEN F1Bytes ELSE IF f = 4 THEN F4Bytes
    ELSE IF f = 6 THEN F6Bytes ELSE IF f = 7 THEN F7Bytes ELSE F2Bytes

\* self.index: the tables _parse_index returns for the SDNA of both files
SdnaIndex ==
    [field_names |-> <<
        <<"*", "n", "e", "x", "t">>,
        <<"n", "a", "m", "e", "[", "4", "]">>,
        <<"i", "d">>,
        <<"*", "w", "o", "r", "l", "d">>,
        <<"f", "l", "a", "g">>,
        <<"a", "o", "d", "i", "s", "t">>,
        <<"x", "m", "i", "n">>,
        <<"x", "m", "a", "x">>,
        <<"l", "a", "y", "e", "r">>,
        <<"*", "m", "t", "e", "x", "[", "2", "]">>,
        <<"*", "f", "r", "o", "m">> >>,
     type_names |-> <<"char", "short", "int", "ID", "World", "Scene", "rctf", "Group", "Link">>,
     type_sizes |-> <<1, 2, 4, 8, 18, 16, 4, 8, 6>>,
     structures |-> <<
        [index |-> 3, fields |-> <<[index_type |-> 3, index_name |-> 0], [index_type |-> 0, index_name |-> 1]>>],
        [index |-> 4, fields |-> <<[index_type |-> 3, index_name |-> 2], [index_type |-> 1, index_name |-> 5], [index_type |-> 6, index_name |-> 9]>>],
        [index |-> 5, fields |-> <<[index_type |-> 3, index_name |-> 2], [index_type |-> 4, index_name |-> 3], [index_type |-> 1, index_name |-> 4], [index_type |-> 1, index_name |-> 8]>>],
        [index |-> 6, fields |-> <<[index_type |-> 1, index_name |-> 6], [index_type |-> 1, index_name |-> 7]>>],
        [index |-> 7, fields |-> <<[index_type |-> 3, index_name |-> 2]>>],
        [index |-> 8, fields |-> <<[index_type |-> 1, index_name |-> 4], [index_type |-> 3, index_name |-> 10]>>] >>]

Index(f) == IF f = 6 THEN SdnaIndex6 ELSE IF f = 7 THEN SdnaIndex7 ELSE SdnaIndex

\* self.blocks: the directory _parse_blocks returns, (header, payload offset)
F1Blocks ==
    <<
      [head |-> [code |-> << 87, 79, 0, 0 >>, size |-> 18, addr |-> 16, sdna |-> 1, count |-> 1],
       offset |-> 32],
      [head |-> [code |-> << 87, 79, 0, 0 >>, size |-> 18, addr |-> 32, sdna |-> 1, count |-> 1],
       offset |-> 70],
      [head |-> [code |-> << 83, 67, 0, 0 >>, size |-> 16, addr |-> 48, sdna |-> 2, count |-> 1],
       offset |-> 108],
      [head |-> [code |-> << 83, 67, 0, 0 >>, size |-> 16, addr |-> 64, sdna |-> 2, count |-> 1],
       offset |-> 144],
      [head |-> [code |-> << 68, 65, 84, 65 >>, size |-> 8, addr |-> 80, sdna |-> 3, count |-> 2],
       offset |-> 180],
      [head |-> [code |-> << 71, 82, 0, 0 >>, size |-> 8, addr |-> 112, sdna |-> 4, count |-> 1],
       offset |-> 208] >>

\* self.blocks: the directory _parse_blocks returns, (header, payload offset)
F2Blocks ==
    <<
      [head |-> [code |-> << 87, 79, 0, 0 >>, size |-> 18, addr |-> 16, sdna |-> 1, count |-> 1],
       offset |-> 32] >>

Blocks(f) == IF f = 1 THEN F1Blocks ELSE IF f \in {6, 7} THEN <<>> ELSE F2Blocks

\* ------------------------------------------------------------ header parsing
Magic == <<66, 76, 69, 78, 68, 69, 82>>

\* _parse_header returns None for a header it rejects
HeaderNone == [version |-> <<>>, arch |-> "None", endian |-> "None"]

\* a parser that takes every byte but '-' for a 32-bit mark
ParseHeaderLax(header) ==
    IF Len(header) # 12 \/ SubSeq(header, 1, 7) # Magic THEN HeaderNone
    ELSE IF header[9] \notin {118, 86} THEN HeaderNone
    ELSE [version |-> [i \in 1..3 |-> header[9 + i] - 48],
          arch    |-> IF header[8] = 45 THEN "X64" ELSE "X32",
          endian  |-> IF header[9] = 118 THEN "Little" ELSE "Big"]

_parse_header(header) ==
    IF Len(header) # 12 \/ SubSeq(header, 1, 7) # Magic THEN HeaderNone
    ELSE LET arch    == header[8]
             endian  == header[9]
             version == [i \in 1..3 |-> header[9 + i] - 48]
         IN  IF arch \notin {45, 95} THEN HeaderNone
             ELSE IF endian \notin {118, 86} THEN HeaderNone
             ELSE [version |-> version,
                   arch    |-> IF arch = 45 THEN "X64" ELSE "X32",
                   endian  |-> IF endian = 118 THEN "Little" ELSE "Big"]

\* self.header
Header(f) == _parse_header(SubSeq(FileBytes(f), 1, 12))

\* Arch.value: the struct code that replaces 'P'
ArchValue(arch) == IF arch = "X64" THEN "Q" ELSE "I"

\* -------------------------------------------------------- schema inspection
\* _BASE_TYPES
BaseTypes == [float |-> "f", double |-> "d", int |-> "i", short |-> "h",
              char |-> "c", uint64_t |-> "Q"]

\* the structures whose type index is index, in SDNA order
StructsOfType(f, index) ==
    SelectSeq(Index(f).structures, LAMBDA s : s.index = index)

\* _struct_lookup: the first structure of that type; raises when there is none
_struct_lookup(f, index) ==
    LET found == StructsOfType(f, index)
    IN  IF found = <<>>
        THEN [err |-> "BlenderFileReadException", struct |-> <<>>]
        ELSE [err |-> "", struct |-> <<found[1]>>]

\* name.lstrip('*')
RECURSIVE LStrip(_)
LStrip(name) ==
    IF Len(name) > 0 /\ name[1] = "*" THEN LStrip(Tail(name)) ELSE name

\* array_template.findall(name): the digit strings of every "[digits]"
RECURSIVE ArrayTemplate(_, _)
ArrayTemplate(name, i) ==
    IF i > Len(name) THEN <<>>
    ELSE IF name[i] = "["
    THEN LET k == DigitRun(name, i + 1)
         IN  IF k >= 1 /\ i + 1 + k <= Len(name) /\ name[i + 1 + k] = "]"
             THEN <<SubSeq(name, i + 1, i + k)>> \o ArrayTemplate(name, i + k + 2)
             ELSE ArrayTemplate(name, i + 1)
    ELSE ArrayTemplate(name, i + 1)

\* name.index(c), 0-based
IndexOf(name, c) == MinOf({i \in 1..Len(name) : name[i] = c}) - 1

\* one BlendStructField of _export_struct
ExportSized(f, dna, is_ptr, is_array, name1, size1, count) ==
    [name  |-> IF is_array THEN SubSeq(name1, 1, IndexOf(name1, "[")) ELSE name1,
     type  |-> At(Index(f).type_names, dna.index_type),
     size  |-> IF is_array THEN size1 * count ELSE size1,
     ptr   |-> is_ptr,
     count |-> count]

\* an array length that stops at the first "[digits]"
ArrayCountFirst(dims) == IF dims = <<>> THEN 1 ELSE IntOfStr(dims[1])

\* the array length: the product of the "[digits]" of the name
ArrayCount(dims) == ProdSeq([k \in 1..Len(dims) |-> IntOfStr(dims[k])])

ExportNamed(f, dna, is_ptr, is_array, name1) ==
    ExportSized(f, dna, is_ptr, is_array, name1,
                IF is_ptr THEN (IF Header(f).arch = "X64" THEN 8 ELSE 4)
                ELSE At(Index(f).type_sizes, dna.index_type),
                IF is_array THEN ArrayCount(ArrayTemplate(name1, 1)) ELSE 1)

ExportRaw(f, dna, raw) ==
    ExportNamed(f, dna, raw[1] = "*", raw[Len(raw)] = "]",
                IF raw[1] = "*" THEN LStrip(raw) ELSE raw)

ExportField(f, dna) == ExportRaw(f, dna, At(Index(f).field_names, dna.index_name))

_export_struct(f, struct) ==
    [name   |-> At(Index(f).type_names, struct.index),
     fields |-> [k \in 1..Len(struct.fields) |-> ExportField(f, struct.fields[k])]]

\* ---------------------------------------------------------------------- tree
\* BlenderFile.tree.  The text is kept as its lines: the first line is the
\* type name and the version, a line of field_lookup is the indent level,
\* the type name and the raw field name.

\* a test that also lets the deepest level list its fields
ExpandsDeep(f, ftype, field_name, indent_level, recursive, max_level) ==
    /\ recursive
    /\ indent_level <= max_level
    /\ \E k \in 1..Len(Index(f).structures) : Index(f).structures[k].index = ftype
    /\ "*" \notin Range(field_name)

\* the two tests of field_lookup: the fields of a field are listed
Expands(f, ftype, field_name, indent_level, recursive, max_level) ==
    /\ recursive
    /\ indent_level < max_level
    /\ \E k \in 1..Len(Index(f).structures) : Index(f).structures[k].index = ftype
    /\ "*" \notin Range(field_name)

\* field_lookup(struct, indent_level), from field k of the struct on
RECURSIVE field_lookup(_, _, _, _, _, _)
field_lookup(f, struct, k, indent_level, recursive, max_level) ==
    IF k > Len(struct.fields) THEN <<>>
    ELSE <<[indent |-> indent_level,
            type   |-> At(Index(f).type_names, struct.fields[k].index_type),
            name   |-> At(Index(f).field_names, struct.fields[k].index_name)]>>
         \o (IF Expands(f, struct.fields[k].index_type,
                        At(Index(f).field_names, struct.fields[k].index_name),
                        indent_level, recursive, max_level)
             THEN field_lookup(f, _struct_lookup(f, struct.fields[k].index_type).struct[1],
                               1, indent_level + 1, recursive, max_level)
             ELSE <<>>)
         \o field_lookup(f, struct, k + 1, indent_level, recursive, max_level)

TreeOf(f, type_name, recursive, max_level, dna) ==
    IF dna.err # "" THEN [err |-> dna.err, head |-> <<>>, lines |-> <<>>]
    ELSE [err   |-> "",
          head  |-> <<type_name, Header(f).version>>,
          lines |-> field_lookup(f, dna.struct[1], 1, 0, recursive, max_level)]

\* type_names.index(type_name) raises ValueError for a name not in the table
tree(f, type_name, recursive, max_level) ==
    IF type_name \notin Range(Index(f).type_names)
    THEN [err |-> "ValueError", head |-> <<>>, lines |-> <<>>]
    ELSE TreeOf(f, type_name, recursive, max_level,
                _struct_lookup(f, IndexOf(Index(f).type_names, type_name)))

\* ------------------------------------------------------------ format strings
\* A format string is kept as the list of its (count, code) items.
PtrPrefix == <<"p", "t", "r", "_">>

\* the names compile_fmt gives the values of one field
FieldNames(fld) ==
    LET count == StrOfInt(fld.count)
        base  == IF fld.count > 1 /\ fld.type # "char"
                 THEN [i \in 1..fld.count |->
                          fld.name \o <<"_">> \o StrOfInt(i - 1) \o <<"_">> \o count]
                 ELSE <<fld.name>>
    IN  IF fld.ptr THEN [i \in 1..Len(base) |-> PtrPrefix \o base[i]]
        ELSE IF fld.type \in DOMAIN BaseTypes THEN base
        ELSE <<>>

\* the format item compile_fmt emits for one field
FieldFmt(fld) ==
    IF fld.ptr THEN [n |-> fld.count, c |-> "P"]
    ELSE IF fld.type \in DOMAIN BaseTypes
    THEN IF fld.type = "char" /\ fld.count > 1
         THEN [n |-> fld.count, c |-> "s"]
         ELSE [n |-> fld.count, c |-> BaseTypes[fld.type]]
    ELSE [n |-> fld.size, c |-> "x"]

compile_fmt(fields) ==
    [fmt   |-> [k \in 1..Len(fields) |-> FieldFmt(fields[k])],
     names |-> Flatten([k \in 1..Len(fields) |-> FieldNames(fields[k])])]

\* fmt.replace('P', arch.value)
ReplaceP(fmt, arch) ==
    [k \in 1..Len(fmt) |->
        IF fmt[k].c = "P" THEN [n |-> fmt[k].n, c |-> ArchValue(arch)] ELSE fmt[k]]

\* sizes of the struct codes under '<' and '>' (standard sizes, no padding)
CodeSize == [f |-> 4, d |-> 8, i |-> 4, h |-> 2, c |-> 1, Q |-> 8, I |-> 4]

ItemSize(it) == IF it.c \in {"x", "s"} THEN it.n ELSE it.n * CodeSize[it.c]

\* Struct.size
FmtSize(fmt) == SumSeq([k \in 1..Len(fmt) |-> ItemSize(fmt[k])])

Reverse(s) == The({[i \in 1..Len(b) |-> b[Len(b) + 1 - i]] : b \in {s}})

LittleOrder(b, endian) == IF endian = "Little" THEN b ELSE Reverse(b)

RECURSIVE LEUnsigned(_)
LEUnsigned(b) == IF b = <<>> THEN 0 ELSE Head(b) + 256 * LEUnsigned(Tail(b))

Unsigned(b, endian) == The({LEUnsigned(le) : le \in {LittleOrder(b, endian)}})

\* two's complement
SignedLE(le) ==
    IF le[Len(le)] < 128 THEN LEUnsigned(le)
    ELSE LEUnsigned(SubSeq(le, 1, Len(le) - 1) \o <<le[Len(le)] - 256>>)

Signed(b, endian) == The({SignedLE(le) : le \in {LittleOrder(b, endian)}})

\* an unsigned value of 2^31 or more is kept as its bytes, low byte first
UnsignedValue(le) ==
    IF \A i \in 4..Len(le) : IF i = 4 THEN le[i] < 128 ELSE le[i] = 0
    THEN LEUnsigned(le) ELSE le

\* the values one format item yields from its bytes
UnpackItem(it, endian, bytes) ==
    IF it.c = "x" THEN <<>>
    ELSE IF it.c = "s" THEN <<BytesV(bytes)>>
    ELSE LET w == CodeSize[it.c]
             piece(k) == SubSeq(bytes, (k - 1) * w + 1, k * w)
         IN  [k \in 1..it.n |->
                IF it.c = "c" THEN BytesV(piece(k))
                ELSE IF it.c \in {"h", "i"} THEN IntV(Signed(piece(k), endian))
                ELSE IF it.c \in {"I", "Q"}
                THEN IntV(UnsignedValue(LittleOrder(piece(k), endian)))
                ELSE FloatV(Reverse(LittleOrder(piece(k), endian)))]

\* Struct.unpack on data of exactly Struct.size bytes
RECURSIVE UnpackItems(_, _, _)
UnpackItems(fmt, endian, data) ==
    IF fmt = <<>> THEN <<>>
    ELSE LET sz == ItemSize(Head(fmt))
         IN  UnpackItem(Head(fmt), endian, SubSeq(data, 1, sz))
             \o UnpackItems(Tail(fmt), endian, SubSeq(data, sz + 1, Len(data)))

\* NamedStruct.unpack.  FMT is [names, endian, fmt]; self.names(*values)
\* raises TypeError unless there is one value per name.
UnpackChunk(FMT, data, y, k) ==
    UnpackItems(FMT.fmt, FMT.endian, SubSeq(data, (k - 1) * y + 1, k * y))

\* x = len(data), y = self.format.size, first = the values of the first y bytes
UnpackSized(FMT, data, x, y, first) ==
    IF x > y /\ y = 0 THEN [err |-> "ZeroDivisionError", vals |-> <<>>]
    ELSE IF x > y /\ x % y = 0
    THEN IF Len(first) # Len(FMT.names)
         THEN [err |-> "TypeError", vals |-> <<>>]
         ELSE [err |-> "",
               vals |-> [k \in 1..(x \div y) |-> NtV(UnpackChunk(FMT, data, y, k))]]
    ELSE IF x # y THEN [err |-> "struct.error", vals |-> <<>>]
    ELSE IF Len(first) # Len(FMT.names)
         THEN [err |-> "TypeError", vals |-> <<>>]
         ELSE [err |-> "", vals |-> first]

NamedStructUnpack(FMT, data) ==
    UnpackSized(FMT, data, Len(data), FmtSize(FMT.fmt),
                UnpackChunk(FMT, data, FmtSize(FMT.fmt), 1))

\* ------------------------------------------------------------------ records
\* A dict / attribute namespace: a function from keys to values.
EmptyMap == [x \in {} |-> 0]

Put(m, k, v) == [x \in (DOMAIN m) \cup {k} |-> IF x = k THEN v ELSE m[x]]

Restrict(m, S) == [x \in (DOMAIN m) \cap S |-> m[x]]

\* data[lo:hi] for 0 <= lo <= hi
PySlice(data, lo, hi) ==
    SubSeq(data, (IF lo < Len(data) THEN lo ELSE Len(data)) + 1,
                 IF hi < Len(data) THEN hi ELSE Len(data))

\* the ends e of a first group name[1..e] with which
\* '(.+)_\d+_(\d+)' matches: "_", digits, "_", digits follow it
TemplateEnds(name) ==
    {e \in 1..Len(name) :
        /\ e + 1 <= Len(name)
        /\ name[e + 1] = "_"
        /\ LET k == DigitRun(name, e + 2)
           IN  /\ k >= 1
               /\ e + 2 + k <= Len(name)
               /\ name[e + 2 + k] = "_"
               /\ DigitRun(name, e + 3 + k) >= 1}

\* template.findall(name): <<>> or match[0] = <<field_name, array_len>>;
\* the greedy first group takes the longest possible prefix
TemplateGroups(name, e, k) ==
    <<SubSeq(name, 1, e),
      SubSeq(name, e + 3 + k, e + 2 + k + DigitRun(name, e + 3 + k))>>

TemplateLast(name, ends) ==
    IF ends = {} THEN <<>>
    ELSE TemplateGroups(name, CHOOSE x \in ends : \A y \in ends : y <= x,
                        DigitRun(name, (CHOOSE x \in ends : \A y \in ends : y <= x) + 2))

TemplateMatch(name) == TemplateLast(name, TemplateEnds(name))

\* how many further names an array name swallows: range(int(array_len)-1)
ArrayRest(match) ==
    IF IntOfStr(match[2]) - 1 > 0 THEN IntOfStr(match[2]) - 1 ELSE 0

\* BlenderObject._set_fields, from position i of zip(names, data); running
\* out of pairs (StopIteration) ends it, an unfinished array is not set
RECURSIVE SetFieldsFrom(_, _, _, _)
SetField(names, data, i, attrs, n, match) ==
    IF match = <<>>
    THEN SetFieldsFrom(names, data, i + 1, Put(attrs, names[i], data[i]))
    ELSE IF i + ArrayRest(match) > n THEN attrs
    ELSE SetFieldsFrom(names, data, i + ArrayRest(match) + 1,
             Put(attrs, match[1], TupleV(SubSeq(data, i, i + ArrayRest(match)))))

SetFieldsFrom(names, data, i, attrs) ==
    LET n == IF Len(names) < Len(data) THEN Len(names) ELSE Len(data)
    IN  IF i > n THEN attrs
        ELSE SetField(names, data, i, attrs, n, TemplateMatch(names[i]))

_set_fields(names, data, attrs) == SetFieldsFrom(names, data, 1, attrs)

ObjV(o) == [t |-> "obj", v |-> <<o>>]

\* BlenderObject.__new__(cls, file, data): the embedded records of
\* cls.CLASSES first, then the fields of cls.FMT.  origin remembers where
\* the bytes came from: the file, the position of the block in the
\* directory, the element of the block, and whether a factory or
\* _from_address read them.
RECURSIVE NewObject(_, _, _, _, _), NewSubObjects(_, _, _, _, _, _)
AddSubObject(clss, deps, file, data, origin, attrs, sub) ==
    IF sub.err # "" THEN [err |-> sub.err, attrs |-> attrs]
    ELSE NewSubObjects(clss, Tail(deps), file, data, origin,
                       Put(attrs, Head(deps).name, ObjV(sub.obj[1])))

NewSubObjects(clss, deps, file, data, origin, attrs) ==
    IF deps = <<>> THEN [err |-> "", attrs |-> attrs]
    ELSE AddSubObject(clss, deps, file, data, origin, attrs,
            NewObject(clss, Head(deps).cls, file,
                      PySlice(data, Head(deps).lo, Head(deps).hi), origin))

MakeObject(clss, c, file, origin, subs, vals) ==
    IF subs.err # "" THEN [err |-> subs.err, obj |-> <<>>]
    ELSE IF vals.err # "" THEN [err |-> vals.err, obj |-> <<>>]
    ELSE [err |-> "",
          obj |-> <<[cls    |-> c,
                     file   |-> file,
                     attrs  |-> _set_fields(clss[c].FMT.names, vals.vals, subs.attrs),
                     origin |-> origin]>>]

NewObject(clss, c, file, data, origin) ==
    MakeObject(clss, c, file, origin,
               NewSubObjects(clss, clss[c].CLASSES, file, data, origin, EmptyMap),
               NamedStructUnpack(clss[c].FMT, data))

\* the loop of BlenderObject.__eq__ from position i of FMT.names
RECURSIVE EqFrom(_, _, _, _, _)
EqField(names, a, b, i, eq, match) ==
    LET attr == IF match = <<>> THEN names[i] ELSE match[1]
        rest == IF match = <<>> THEN 0 ELSE ArrayRest(match)
    IN  IF attr \notin DOMAIN a.attrs \/ attr \notin DOMAIN b.attrs
        THEN [err |-> "AttributeError", val |-> FALSE]
        ELSE IF i + rest > Len(names)
        THEN [err |-> "StopIteration", val |-> FALSE]
        ELSE EqFrom(names, a, b, i + rest + 1,
                    eq \/ PyEq(a.attrs[attr], b.attrs[attr]))

EqFrom(names, a, b, i, eq) ==
    IF i > Len(names) THEN [err |-> "", val |-> eq]
    ELSE EqField(names, a, b, i, eq, TemplateMatch(names[i]))

\* BlenderObject.__eq__
__eq__(clss, a, b) ==
    IF a.cls # b.cls THEN [err |-> "", val |-> FALSE]
    ELSE EqFrom(clss[a.cls].FMT.names, a, b, 1, FALSE)

\* -------------------------------------------------------------------- state
VARIABLES
    files,      \* per file: st ("new" before BlenderFile(path), "live" while
                \* the caller holds the object, "freed" after) and closed
                \* (handle.close() was called)
    facCache,   \* BlenderObjectFactory.CACHE: version -> name -> weak ref
    objCache,   \* BlenderObject.CACHE: version -> name -> weak ref
    factories,  \* the factories that exist, by identity
    classes,    \* the decoder classes that exist, by identity
    records,    \* the records that exist, by identity
    heldRec,    \* the records the caller holds in variables
    heldCls,    \* the decoder classes the caller holds in variables
    ret,        \* what the last call returned or raised
    ops         \* how many calls the caller has made

vars == <<files, facCache, objCache, factories, classes, records, heldRec,
          heldCls, ret, ops>>

\* A weak reference is the identity of its referent, or Dead once the
\* referent is gone: calling it then gives None.
Dead == 0

\* cache.get(version).get(name) called: the referent, or Dead
CacheGet(cache, version, name) ==
    IF version \in DOMAIN cache /\ name \in DOMAIN cache[version]
    THEN cache[version][name] ELSE Dead

\* cache[version][name] = ref(obj)
CachePut(cache, version, name, obj) ==
    Put(cache, version, Put(cache[version], name, obj))

\* what a cache holds under (version, name): nothing, a dead weak reference
\* or a live one
EntryState(cache, version, name) ==
    IF version \notin DOMAIN cache \/ name \notin DOMAIN cache[version] THEN "absent"
    ELSE IF cache[version][name] = Dead THEN "dead"
    ELSE "live"

\* references that keep answering after their referent is gone
CacheKeep(cache, alive) == cache

\* the weak references to objects outside alive are cleared
CacheClear(cache, alive) ==
    [v \in DOMAIN cache |->
        [n \in DOMAIN cache[v] |->
            IF cache[v][n] \in alive THEN cache[v][n] ELSE Dead]]

\* AddressLookup.value: None, one record, a tuple of records (a block of
\* several elements) or the list _from_addresses returns
NoneM == [t |-> "None", v |-> <<>>]

RECURSIVE MemoRefs(_)
MemoRefs(m) ==
    IF m.t = "list" THEN UNION {MemoRefs(m.v[i]) : i \in 1..Len(m.v)}
    ELSE Range(m.v)

\* the records some descriptor of some class in clss refers to
MemoRecords(clss) ==
    UNION {UNION {MemoRefs(clss[c].lookup[n]) : n \in DOMAIN clss[c].lookup} :
              c \in DOMAIN clss}

\* records are freed as soon as nothing refers to them
Sweep(recs, held, clss) == Restrict(recs, held \cup MemoRecords(clss))

\* BlenderObject.file / BlenderObjectFactory.file: the weak reference called
FileAlive(f) == files[f].st = "live"

\* _read_block: seek and read on the handle
_read_block(f, block) ==
    IF files[f].closed THEN [err |-> "ValueError", data |-> <<>>]
    ELSE [err |-> "",
          data |-> IF block.head.size < 0
                   THEN PySlice(FileBytes(f), block.offset, Len(FileBytes(f)))
                   ELSE PySlice(FileBytes(f), block.offset,
                                block.offset + block.head.size)]

\* ---------------------------------------------------------- decoder classes
\* _build_objects(file, struct).  st carries the decoder classes and
\* BlenderObject.CACHE through the recursion; the result is the decoder.
RECURSIVE _build_objects(_, _, _), BuildDeps(_, _, _, _, _, _)

\* step 2 of _build_objects: the loop over the fields from field k on
BuildDep(f, struct, fields, k, offset, st, built) ==
    IF built.err # "" THEN built
    ELSE BuildDeps(f, struct, fields, k + 1, offset + fields[k].size,
            [built EXCEPT !.deps =
                Append(st.deps, [cls  |-> built.obj,
                                 lo   |-> offset,
                                 hi   |-> offset + fields[k].size,
                                 name |-> fields[k].name])])

BuildLookedUp(f, struct, fields, k, offset, st, tmp_dna) ==
    IF tmp_dna.err # "" THEN [st EXCEPT !.err = tmp_dna.err]
    ELSE BuildDep(f, struct, fields, k, offset, st,
                  _build_objects(f, tmp_dna.struct[1], st))

BuildDeps(f, struct, fields, k, offset, st) ==
    IF k > Len(fields) THEN st
    ELSE IF fields[k].type \notin DOMAIN BaseTypes /\ ~fields[k].ptr
    THEN BuildLookedUp(f, struct, fields, k, offset, st,
                       _struct_lookup(f, struct.fields[k].index_type))
    ELSE BuildDeps(f, struct, fields, k + 1, offset + fields[k].size, st)

\* step 4: the class, entered in the cache
BuildClass(f, st, exported, deps, compiled) ==
    LET obj  == FreshId(DOMAIN deps.classes)
        ptrs == {exported.fields[k].name :
                    k \in {j \in 1..Len(exported.fields) : exported.fields[j].ptr}}
        cls  == [VERSION |-> Header(f).version,
                 name    |-> exported.name,
                 FMT     |-> [names  |-> compiled.names,
                              endian |-> Header(f).endian,
                              fmt    |-> ReplaceP(compiled.fmt, Header(f).arch)],
                 CLASSES |-> deps.deps,
                 lookup  |-> [n \in ptrs |-> NoneM]]
    IN  IF deps.err # "" THEN [deps EXCEPT !.deps = st.deps]
        ELSE [deps EXCEPT !.obj     = obj,
                          !.deps    = st.deps,
                          !.classes = Put(deps.classes, obj, cls),
                          !.cache   = CachePut(deps.cache, Header(f).version,
                                               exported.name, obj)]

\* steps 2 and 3 for the exported struct
BuildExported(f, struct, st, exported) ==
    BuildClass(f, st, exported,
               BuildDeps(f, struct, exported.fields, 1, 0, [st EXCEPT !.deps = <<>>]),
               compile_fmt(exported.fields))

\* _build_objects when the cache has no live decoder
BuildFresh(f, struct, st) == BuildExported(f, struct, st, _export_struct(f, struct))

\* BlenderObject.CACHE with its dict for the version
VersionCache(cache, version) ==
    IF version \in DOMAIN cache THEN cache ELSE Put(cache, version, EmptyMap)

\* the cached decoder obj when its weak reference is live, a new one otherwise
BuildOrGet(f, struct, st, obj) ==
    IF obj # Dead THEN [st EXCEPT !.err = "", !.obj = obj]
    ELSE BuildFresh(f, struct, st)

\* a synthesizer that never looks a decoder up
BuildAlways(f, struct, st) ==
    BuildFresh(f, struct, [st EXCEPT !.cache = VersionCache(st.cache, Header(f).version)])

\* steps 1 and 3 of _build_objects: the decoder the cache still refers to,
\* or a new one
_build_objects(f, struct, st) ==
    BuildOrGet(f, struct,
               [st EXCEPT !.cache = VersionCache(st.cache, Header(f).version)],
               CacheGet(st.cache, Header(f).version,
                        At(Index(f).type_names, struct.index)))

\* the state _build_objects starts from
BuildState == [err |-> "", obj |-> Dead, deps |-> <<>>, fac |-> <<>>,
               res |-> [t |-> "None", objs |-> <<>>],
               classes |-> classes, cache |-> objCache]

\* ---------------------------------------------------------------- factories
\* BlenderObjectFactory.__init__(file, type_name_index)
FactoryBuilt(f, index, struct_dna, built) ==
    IF built.err # "" THEN built
    ELSE [built EXCEPT !.fac =
            <<[file        |-> f,
               struct_dna  |-> struct_dna,
               sdna_index  |-> index,
               has_name    |-> \E k \in 1..Len(struct_dna.fields) :
                                  At(Index(f).type_names,
                                     struct_dna.fields[k].index_type) = "ID",
               object      |-> built.obj,
               object_name |-> At(Index(f).type_names, struct_dna.index),
               \* not an attribute: whether the file was still open
               early       |-> ~files[f].closed]>>]

FactoryOf(f, index, st) ==
    FactoryBuilt(f, index, At(Index(f).structures, index),
                 _build_objects(f, At(Index(f).structures, index), st))

NewFactory(f, type_name_index, st) ==
    LET found == {i \in 1..Len(Index(f).structures) :
                     Index(f).structures[i].index = type_name_index}
    IN  IF found = {} THEN [st EXCEPT !.err = "AttributeError"]
        ELSE FactoryOf(f, MinOf(found) - 1, st)

\* every directory entry, whatever its structure
MatchingAll(f, sdna_index) == [i \in 1..Len(Blocks(f)) |-> i]

\* the directory entries a factory iterates over, in directory order
MatchingBlocks(f, sdna_index) ==
    SelectSeq([i \in 1..Len(Blocks(f)) |-> i],
              LAMBDA i : Blocks(f)[i].head.sdna = sdna_index)

\* the body of BlenderObjectFactory.__iter__ run to its end from the k-th
\* matching block: the records yielded so far, or the first error
RECURSIVE IterFrom(_, _, _, _)
IterNew(fac, todo, k, acc, new) ==
    IF new.err # "" THEN [err |-> new.err, objs |-> acc]
    ELSE IterFrom(fac, todo, k + 1, Append(acc, new.obj[1]))

IterRead(fac, todo, k, acc, data) ==
    IF data.err # "" THEN [err |-> data.err, objs |-> acc]
    ELSE IterNew(fac, todo, k, acc,
                 NewObject(classes, fac.object, fac.file, data.data,
                           [file |-> fac.file, block |-> todo[k], k |-> 0,
                            via |-> "factory"]))

IterFrom(fac, todo, k, acc) ==
    IF k > Len(todo) THEN [err |-> "", objs |-> acc]
    ELSE IterRead(fac, todo, k, acc, _read_block(fac.file, Blocks(fac.file)[todo[k]]))

\* list(factory): every record of the factory, or the error raised
FactoryIter(fac) ==
    IF ~FileAlive(fac.file) THEN [err |-> "RuntimeError", objs |-> <<>>]
    ELSE IterFrom(fac, MatchingBlocks(fac.file, fac.sdna_index), 1, <<>>)

\* _name[2:_name.index(0)] == name_bytes, for the bytes value of id.name
\* a comparison with the whole of id.name, two-letter code included
NameMatchesWhole(obj, name_bytes) ==
    LET _name == obj.attrs[<<"i", "d">>].v[1].attrs[<<"n", "a", "m", "e">>].v
    IN  PySlice(_name, 0, IndexOf(_name, 0)) = name_bytes

NameMatches(obj, name_bytes) ==
    LET _name == obj.attrs[<<"i", "d">>].v[1].attrs[<<"n", "a", "m", "e">>].v
    IN  PySlice(_name, 2, IndexOf(_name, 0)) = name_bytes

\* what reading obj.id.name and calling _name.index(0) raises, "" if nothing
\* (an id.name that is not a byte string is not followed further)
NameError(obj) ==
    IF \/ <<"i", "d">> \notin DOMAIN obj.attrs
       \/ obj.attrs[<<"i", "d">>].t # "obj"
       \/ <<"n", "a", "m", "e">> \notin DOMAIN obj.attrs[<<"i", "d">>].v[1].attrs
       \/ obj.attrs[<<"i", "d">>].v[1].attrs[<<"n", "a", "m", "e">>].t # "bytes"
    THEN "AttributeError"
    ELSE IF 0 \notin Range(obj.attrs[<<"i", "d">>].v[1].attrs[<<"n", "a", "m", "e">>].v)
    THEN "ValueError"
    ELSE ""

\* the loop of find_by_name over the generator, from the k-th matching block
RECURSIVE FindFrom(_, _, _, _)
FindNew(fac, todo, k, name_bytes, new) ==
    IF new.err # "" THEN [err |-> new.err, objs |-> <<>>]
    ELSE IF NameError(new.obj[1]) # ""
    THEN [err |-> NameError(new.obj[1]), objs |-> <<>>]
    ELSE IF NameMatches(new.obj[1], name_bytes)
    THEN [err |-> "", objs |-> new.obj]
    ELSE FindFrom(fac, todo, k + 1, name_bytes)

FindRead(fac, todo, k, name_bytes, data) ==
    IF data.err # "" THEN [err |-> data.err, objs |-> <<>>]
    ELSE FindNew(fac, todo, k, name_bytes,
                 NewObject(classes, fac.object, fac.file, data.data,
                           [file |-> fac.file, block |-> todo[k], k |-> 0,
                            via |-> "factory"]))

FindFrom(fac, todo, k, name_bytes) ==
    IF k > Len(todo) THEN [err |-> "KeyError", objs |-> <<>>]
    ELSE FindRead(fac, todo, k, name_bytes,
                  _read_block(fac.file, Blocks(fac.file)[todo[k]]))

\* BlenderObjectFactory.find_by_name(name)
find_by_name(fac, name) ==
    IF ~fac.has_name THEN [err |-> "BlenderFileReadException", objs |-> <<>>]
    ELSE IF ~FileAlive(fac.file) THEN [err |-> "RuntimeError", objs |-> <<>>]
    ELSE FindFrom(fac, MatchingBlocks(fac.file, fac.sdna_index), 1, Encode(name))

\* --------------------------------------------------------- pointer resolution
\* the elements of a block of several structs: one record per step bytes
RECURSIVE ElementsFrom(_, _, _, _, _, _, _)
ElementNew(clss, c, f, data, i, k, acc, new) ==
    IF new.err # "" THEN [err |-> new.err, objs |-> <<>>]
    ELSE ElementsFrom(clss, c, f, data, i, k + 1, Append(acc, new.obj[1]))

ElementsFrom(clss, c, f, data, i, k, acc) ==
    LET step == FmtSize(clss[c].FMT.fmt)
    IN  IF k * step >= Blocks(f)[i].head.size THEN [err |-> "", objs |-> acc]
        ELSE ElementNew(clss, c, f, data, i, k, acc,
                NewObject(clss, c, f, PySlice(data, k * step, (k + 1) * step),
                          [file |-> f, block |-> i, k |-> k, via |-> "address"]))

\* BlenderFile._from_address(ptr): the last directory entry with that address
FromOne(built, one) ==
    IF one.err # "" THEN [built EXCEPT !.err = one.err]
    ELSE [built EXCEPT !.res = [t |-> "one", objs |-> one.obj]]

FromMany(built, many) ==
    IF many.err # "" THEN [built EXCEPT !.err = many.err]
    ELSE [built EXCEPT !.res = [t |-> "many", objs |-> many.objs]]

\* a resolver that takes every block for a block of one struct
FromBuiltOne(f, i, block, data, built) ==
    IF built.err # "" THEN built
    ELSE FromOne(built, NewObject(built.classes, built.obj, f, data,
                                  [file |-> f, block |-> i, k |-> 0, via |-> "address"]))

\* the record, or the tuple of records, of directory entry i
FromBuilt(f, i, block, data, built) ==
    IF built.err # "" THEN built
    ELSE IF block.head.count = 1
    THEN FromOne(built, NewObject(built.classes, built.obj, f, data,
                                  [file |-> f, block |-> i, k |-> 0, via |-> "address"]))
    ELSE IF FmtSize(built.classes[built.obj].FMT.fmt) = 0
    THEN [built EXCEPT !.err = "ValueError"]
    ELSE FromMany(built, ElementsFrom(built.classes, built.obj, f, data, i, 0, <<>>))

FromRead(f, i, block, struct, st, data) ==
    IF data.err # "" THEN [st EXCEPT !.err = data.err]
    ELSE FromBuilt(f, i, block, data.data, _build_objects(f, struct, st))

\* self.index.structures[block.sdna], with Python's negative indexes
FromBlock(f, i, block, st) ==
    LET n    == Len(Index(f).structures)
        sdna == block.head.sdna
    IN  IF sdna >= n \/ sdna < 0 - n THEN [st EXCEPT !.err = "IndexError"]
        ELSE FromRead(f, i, block,
                      IF sdna >= 0 THEN At(Index(f).structures, sdna)
                      ELSE At(Index(f).structures, n + sdna),
                      st, _read_block(f, block))

\* a resolver that answers None for an address no block has
FromMatchesNull(f, matches, st) ==
    IF matches = {} THEN [st EXCEPT !.res = [t |-> "None", objs |-> <<>>]]
    ELSE FromBlock(f, CHOOSE x \in matches : \A y \in matches : y <= x,
                   Blocks(f)[CHOOSE x \in matches : \A y \in matches : y <= x], st)

FromMatches(f, matches, st) ==
    IF matches = {} THEN [st EXCEPT !.err = "BlenderFileReadException"]
    ELSE FromBlock(f, CHOOSE x \in matches : \A y \in matches : y <= x,
                   Blocks(f)[CHOOSE x \in matches : \A y \in matches : y <= x], st)

_from_address(f, ptr, st) ==
    FromMatches(f, {i \in 1..Len(Blocks(f)) : Blocks(f)[i].head.addr = ptr}, st)

\* BlenderFile._from_addresses(ptr_list), from the k-th pointer on
RECURSIVE FromAddressesFrom(_, _, _, _, _)
FromAddressesNext(f, ptrs, k, acc, one) ==
    IF one.err # "" THEN one
    ELSE FromAddressesFrom(f, ptrs, k + 1, one, Append(acc, one.res))

FromAddressesFrom(f, ptrs, k, st, acc) ==
    IF k > Len(ptrs) THEN [st EXCEPT !.res = [t |-> "list", objs |-> acc]]
    ELSE IF ptrs[k] = IntV(0)
    THEN FromAddressesFrom(f, ptrs, k + 1, st,
                           Append(acc, [t |-> "None", objs |-> <<>>]))
    ELSE FromAddressesNext(f, ptrs, k, acc, _from_address(f, ptrs[k].v[1], st))

_from_addresses(f, ptr_list, st) == FromAddressesFrom(f, ptr_list, 1, st, <<>>)

\* the records a resolution created, in the order they were created
ResObjs(res) ==
    IF res.t = "list"
    THEN Flatten([j \in 1..Len(res.objs) |-> res.objs[j].objs])
    ELSE res.objs

\* the n smallest identities not in use
RECURSIVE NewIds(_, _)
NewIds(used, n) ==
    IF n = 0 THEN <<>>
    ELSE <<FreshId(used)>> \o NewIds(used \cup {FreshId(used)}, n - 1)

\* what the descriptor keeps for a resolution whose records got the
\* identities ids, the first one being ids[base + 1]
ResMemo(res, ids, base) ==
    IF res.t = "None" THEN NoneM
    ELSE IF res.t = "one" THEN [t |-> "rec", v |-> <<ids[base + 1]>>]
    ELSE [t |-> "tuple", v |-> SubSeq(ids, base + 1, base + Len(res.objs))]

ListMemo(res, ids) ==
    [t |-> "list",
     v |-> [j \in 1..Len(res.objs) |->
              ResMemo(res.objs[j], ids,
                      SumSeq([i \in 1..(j - 1) |-> Len(res.objs[i].objs)]))]]

\* the embedded records of obj, each named by the path of attributes to it
RECURSIVE Paths(_)
Paths(obj) ==
    {<<>>} \cup
    UNION {{<<n>> \o p : p \in Paths(obj.attrs[n].v[1])} :
              n \in {x \in DOMAIN obj.attrs : obj.attrs[x].t = "obj"}}

RECURSIVE ObjAt(_, _)
ObjAt(obj, path) ==
    IF path = <<>> THEN obj ELSE ObjAt(obj.attrs[Head(path)].v[1], Tail(path))

\* ------------------------------------------------------------ garbage
\* what a decoder class refers to strongly: the decoders of its embedded
\* structs (CLASSES) and the classes of the records its descriptors keep
ClassRefs(clss, recs, c) ==
    {clss[c].CLASSES[k].cls : k \in 1..Len(clss[c].CLASSES)}
    \cup {recs[r].cls :
            r \in UNION {MemoRefs(clss[c].lookup[n]) : n \in DOMAIN clss[c].lookup}}

RECURSIVE Reach(_, _, _)
Reach(clss, recs, S) ==
    LET T == S \cup UNION {ClassRefs(clss, recs, c) : c \in S}
    IN  IF T = S THEN S ELSE Reach(clss, recs, T)

\* the classes the caller's variables refer to directly
Roots ==
    heldCls \cup {factories[fa].object : fa \in DOMAIN factories}
            \cup {records[r].cls : r \in heldRec}

\* the classes the cyclic collector must keep.  The caches are weak and
\* keep nothing.
Reachable == Reach(classes, records, Roots)

\* ------------------------------------------------------------------ inputs
\* the type names the caller asks factories for
ListNames == {"World", "Scene", "rctf", "Group", "Link", "short", "foos"}

\* the structures the caller synthesizes decoders for directly, by their
\* position in index.structures: World and Group
BuildInputs == {1, 4}

\* the type names the caller passes to find: a struct and an absent name
FindTypes == {"World", "foos"}

\* the record names the caller looks for
FindNames == {<<"a">>, <<"t">>, <<"z">>}

\* the addresses the caller resolves directly: null, the address of the
\* Group block of file 1 and an address no block has
AddrInputs == {0, 112, 153}

\* ----------------------------------------------------------------- actions
\* every call counts
Tick == ops < MaxOps /\ ops' = ops + 1

Init ==
    /\ files = [f \in Files |-> [st |-> "new", closed |-> FALSE]]
    /\ facCache = EmptyMap
    /\ objCache = EmptyMap
    /\ factories = EmptyMap
    /\ classes = EmptyMap
    /\ records = EmptyMap
    /\ heldRec = {}
    /\ heldCls = {}
    /\ ret = [op |-> "init", kind |-> "ok"]
    /\ ops = 0

\* blend = BlenderFile(path)
Open(f) ==
    /\ Tick
    /\ files[f].st = "new"
    /\ IF Header(f) = HeaderNone
       THEN /\ ret' = [op |-> "open", file |-> f, kind |-> "BlenderFileImportException"]
            /\ UNCHANGED <<files, facCache>>
       ELSE /\ files' = [files EXCEPT ![f].st = "live"]
            /\ facCache' = IF Header(f).version \in DOMAIN facCache THEN facCache
                           ELSE Put(facCache, Header(f).version, EmptyMap)
            /\ ret' = [op |-> "open", file |-> f, kind |-> "ok"]
    /\ UNCHANGED <<objCache, factories, classes, records, heldRec, heldCls>>

\* blend.close()
Close(f) ==
    /\ Tick
    /\ files[f].st = "live"
    /\ files' = [files EXCEPT ![f].closed = TRUE]
    /\ ret' = [op |-> "close", file |-> f, kind |-> "ok"]
    /\ UNCHANGED <<facCache, objCache, factories, classes, records, heldRec, heldCls>>

\* del blend: nothing else refers to the file strongly, it is freed at once
FreeFile(f) ==
    /\ Tick
    /\ files[f].st = "live"
    /\ files' = [files EXCEPT ![f].st = "freed"]
    /\ ret' = [op |-> "free", file |-> f, kind |-> "ok"]
    /\ UNCHANGED <<facCache, objCache, factories, classes, records, heldRec, heldCls>>

\* fact = blend.list(factory_name)
ListMade(f, factory_name, was, made) ==
    LET id == FreshId(DOMAIN factories)
    IN  IF made.err # ""
        THEN /\ ret' = [op |-> "list", file |-> f, name |-> factory_name,
                        kind |-> made.err, val |-> Dead, new |-> FALSE,
                        was |-> was]
             /\ classes' = made.classes
             /\ objCache' = made.cache
             /\ UNCHANGED <<facCache, factories>>
        ELSE /\ Cardinality(DOMAIN factories) < MaxHeldFac
             /\ factories' = Put(factories, id, made.fac[1])
             /\ facCache' = CachePut(facCache, Header(f).version, factory_name, id)
             /\ classes' = made.classes
             /\ objCache' = made.cache
             /\ ret' = [op |-> "list", file |-> f, name |-> factory_name,
                        kind |-> "ok", val |-> id, new |-> TRUE, was |-> was]

ListCached(f, factory_name, was, fact) ==
    IF fact # Dead
    THEN /\ ret' = [op |-> "list", file |-> f, name |-> factory_name,
                    kind |-> "ok", val |-> fact, new |-> FALSE, was |-> was]
         /\ UNCHANGED <<facCache, objCache, factories, classes>>
    ELSE IF factory_name \notin Range(Index(f).type_names)
    THEN /\ ret' = [op |-> "list", file |-> f, name |-> factory_name,
                    kind |-> "BlenderFileReadException", val |-> Dead,
                    new |-> FALSE, was |-> was]
         /\ UNCHANGED <<facCache, objCache, factories, classes>>
    ELSE ListMade(f, factory_name, was,
                  NewFactory(f, IndexOf(Index(f).type_names, factory_name),
                             BuildState))

List(f, factory_name) ==
    /\ Tick
    /\ files[f].st = "live"
    /\ ListCached(f, factory_name,
                  [fac |-> EntryState(facCache, Header(f).version, factory_name),
                   obj |-> EntryState(objCache, Header(f).version, factory_name)],
                  CacheGet(facCache, Header(f).version, factory_name))
    /\ UNCHANGED <<files, records, heldRec, heldCls>>

\* fact = blend.find(name): class BlenderFile defines list and no find, the
\* attribute lookup fails before anything is called
Find(f, name) ==
    /\ Tick
    /\ files[f].st = "live"
    /\ ret' = [op |-> "find", file |-> f, name |-> name,
               kind |-> "AttributeError", val |-> Dead]
    /\ UNCHANGED <<files, facCache, objCache, factories, classes, records,
                   heldRec, heldCls>>

\* del fact: the caller held the only strong reference, the factory is
\* freed at once and the weak reference in the cache dies with it
DropFactory(fa) ==
    /\ Tick
    /\ fa \in DOMAIN factories
    /\ factories' = Restrict(factories, (DOMAIN factories) \ {fa})
    /\ facCache' = CacheClear(facCache, (DOMAIN factories) \ {fa})
    /\ ret' = [op |-> "dropfactory", fac |-> fa, kind |-> "ok"]
    /\ UNCHANGED <<files, objCache, classes, records, heldRec, heldCls>>

\* what a call on a factory found of the file it is bound to
Bound(fa) == [fac    |-> fa,
              file   |-> factories[fa].file,
              struct |-> factories[fa].object_name,
              closed |-> files[factories[fa].file].closed,
              early  |-> factories[fa].early,
              freed  |-> ~FileAlive(factories[fa].file)]

\* fact.file
FactoryFile(fa) ==
    /\ Tick
    /\ fa \in DOMAIN factories
    /\ ret' = [op |-> "file", on |-> Bound(fa),
               kind |-> IF FileAlive(factories[fa].file) THEN "ok" ELSE "RuntimeError",
               val |-> factories[fa].file]
    /\ UNCHANGED <<files, facCache, objCache, factories, classes, records, heldRec, heldCls>>

\* len(fact)
FactoryLen(fa) ==
    /\ Tick
    /\ fa \in DOMAIN factories
    /\ ret' = [op |-> "len", on |-> Bound(fa),
               kind |-> IF FileAlive(factories[fa].file) THEN "ok" ELSE "RuntimeError",
               val |-> Len(MatchingBlocks(factories[fa].file, factories[fa].sdna_index))]
    /\ UNCHANGED <<files, facCache, objCache, factories, classes, records, heldRec, heldCls>>

\* repr(fact), str(fact)
FactoryRepr(fa) ==
    /\ Tick
    /\ fa \in DOMAIN factories
    /\ ret' = [op |-> "repr", on |-> Bound(fa),
               kind |-> IF FileAlive(factories[fa].file) THEN "ok" ELSE "RuntimeError",
               val |-> At(Index(factories[fa].file).type_names,
                          factories[fa].struct_dna.index)]
    /\ UNCHANGED <<files, facCache, objCache, factories, classes, records, heldRec, heldCls>>

\* whether the caller has a variable left for a record
Room == Cardinality(heldRec) < MaxHeldRec

\* objs = list(fact); the caller keeps objs[keep - 1] (keep = 0: none)
Iterated(fa, keep, got) ==
    LET id == FreshId(DOMAIN records)
    IN  /\ keep \in 0..Len(got.objs)
        /\ got.err # "" => keep = 0
        /\ keep > 0 => Room
        /\ ret' = [op |-> "iter", on |-> Bound(fa),
                   kind |-> IF got.err = "" THEN "ok" ELSE got.err,
                   val |-> IF got.err = "" THEN got.objs ELSE <<>>,
                   kept |-> IF keep > 0 THEN id ELSE Dead]
        /\ records' = IF keep > 0 THEN Put(records, id, got.objs[keep]) ELSE records
        /\ heldRec' = IF keep > 0 THEN heldRec \cup {id} ELSE heldRec

Iterate(fa, keep) ==
    /\ Tick
    /\ fa \in DOMAIN factories
    /\ Iterated(fa, keep, FactoryIter(factories[fa]))
    /\ UNCHANGED <<files, facCache, objCache, factories, classes, heldCls>>

\* a, b = fact: the caller iterates the factory and keeps both records of a
\* factory of two; any other number of records is Python's ValueError
Unpacked(fa, got) ==
    LET ids  == NewIds(DOMAIN records, 2)
        keep == got.err = "" /\ Len(got.objs) = 2
    IN  /\ ret' = [op |-> "unpack", on |-> Bound(fa),
                   kind |-> IF got.err # "" THEN got.err
                            ELSE IF keep THEN "ok" ELSE "ValueError",
                   val |-> IF got.err = "" THEN got.objs ELSE <<>>,
                   kept |-> IF keep THEN ids ELSE <<>>]
        /\ records' = IF keep
                      THEN Put(Put(records, ids[1], got.objs[1]), ids[2], got.objs[2])
                      ELSE records
        /\ heldRec' = IF keep THEN heldRec \cup Range(ids) ELSE heldRec

Unpack(fa) ==
    /\ Tick
    /\ fa \in DOMAIN factories
    /\ Cardinality(heldRec) + 2 <= MaxHeldRec
    /\ Unpacked(fa, FactoryIter(factories[fa]))
    /\ UNCHANGED <<files, facCache, objCache, factories, classes, heldCls>>

\* obj = fact.find_by_name(name); the caller keeps obj when a variable is left
Found(fa, name, got) ==
    LET id   == FreshId(DOMAIN records)
        keep == got.err = "" /\ Room
    IN  /\ ret' = [op |-> "find_by_name", on |-> Bound(fa), name |-> name,
                   kind |-> IF got.err = "" THEN "ok" ELSE got.err,
                   val |-> got.objs,
                   kept |-> IF keep THEN id ELSE Dead]
        /\ records' = IF keep THEN Put(records, id, got.objs[1]) ELSE records
        /\ heldRec' = IF keep THEN heldRec \cup {id} ELSE heldRec

FindByName(fa, name) ==
    /\ Tick
    /\ fa \in DOMAIN factories
    /\ Found(fa, name, find_by_name(factories[fa], name))
    /\ UNCHANGED <<files, facCache, objCache, factories, classes, heldCls>>

\* AddressLookup.__get__ reached through a record the caller holds:
\* value = r.fld, or r.<path>.fld for the embedded record at path.  The
\* descriptor is an attribute of the decoder class; self.value lives there.
DerefStore(c, fld, seen, got, objs, ids, value) ==
    LET added == [i \in (DOMAIN records) \cup Range(ids) |->
                    IF i \in DOMAIN records THEN records[i]
                    ELSE objs[CHOOSE k \in 1..Len(ids) : ids[k] = i]]
    IN  /\ ret' = [seen EXCEPT !.kind = "ok", !.val = value]
        /\ classes' = [got.classes EXCEPT ![c].lookup[fld] = value]
        /\ objCache' = got.cache
        /\ heldRec' = IF value.t = "rec" /\ Room
                      THEN heldRec \cup {value.v[1]} ELSE heldRec
        /\ records' = Sweep(added, heldRec', classes')

\* the records got new identities ids; self.value refers to them
DerefNew(c, fld, seen, got, objs, ids) ==
    DerefStore(c, fld, seen, got, objs, ids,
               IF got.res.t = "list" THEN ListMemo(got.res, ids)
               ELSE ResMemo(got.res, ids, 0))

DerefGot(c, fld, seen, got) ==
    IF got.err # ""
    THEN /\ ret' = [seen EXCEPT !.kind = got.err, !.val = NoneM]
         /\ classes' = got.classes
         /\ objCache' = got.cache
         /\ UNCHANGED <<records, heldRec>>
    ELSE DerefNew(c, fld, seen, got, ResObjs(got.res),
                  NewIds(DOMAIN records, Len(ResObjs(got.res))))

\* self.value is None: ptr = getattr(instance, self.name)
DerefPtr(instance, fld, seen, ptr) ==
    IF ~(ptr.t = "int" /\ ptr.v[1] # 0) /\ ptr.t # "tuple"
    THEN /\ ret' = [seen EXCEPT !.kind = "ok", !.val = NoneM]
         /\ UNCHANGED <<classes, objCache, records, heldRec>>
    ELSE IF ~FileAlive(instance.file)
    THEN /\ ret' = [seen EXCEPT !.kind = "RuntimeError", !.val = NoneM]
         /\ UNCHANGED <<classes, objCache, records, heldRec>>
    ELSE DerefGot(instance.cls, fld, seen,
                  IF ptr.t = "int"
                  THEN _from_address(instance.file, ptr.v[1], BuildState)
                  ELSE _from_addresses(instance.file, ptr.v, BuildState))

DerefOn(r, path, fld, instance) ==
    LET c    == instance.cls
        name == PtrPrefix \o fld
        f    == instance.file
        seen == [op |-> "deref", rec |-> r, path |-> path, fld |-> fld,
                 file |-> f, closed |-> files[f].closed,
                 freed |-> ~FileAlive(f),
                 ptr |-> IF name \in DOMAIN instance.attrs
                         THEN <<instance.attrs[name]>> ELSE <<>>,
                 hit |-> classes[c].lookup[fld] # NoneM,
                 kind |-> "ok", val |-> NoneM]
    IN  /\ fld \in DOMAIN classes[c].lookup
        /\ IF classes[c].lookup[fld] # NoneM
           THEN /\ ret' = [seen EXCEPT !.kind = "ok", !.val = classes[c].lookup[fld]]
                /\ heldRec' = IF classes[c].lookup[fld].t = "rec"
                                 /\ (classes[c].lookup[fld].v[1] \in heldRec \/ Room)
                              THEN heldRec \cup {classes[c].lookup[fld].v[1]}
                              ELSE heldRec
                /\ UNCHANGED <<classes, objCache, records>>
           ELSE IF name \notin DOMAIN instance.attrs
           THEN /\ ret' = [seen EXCEPT !.kind = "AttributeError", !.val = NoneM]
                /\ UNCHANGED <<classes, objCache, records, heldRec>>
           ELSE DerefPtr(instance, fld, seen, instance.attrs[name])

Deref(r, path, fld) ==
    /\ Tick
    /\ r \in heldRec
    /\ path \in Paths(records[r])
    /\ DerefOn(r, path, fld, ObjAt(records[r], path))
    /\ UNCHANGED <<files, facCache, factories, heldCls>>

\* obj = blend._from_address(ptr), called on the file as the tests do; the
\* caller keeps a single record when a variable is left
ResolvedNew(seen, got, objs, ids) ==
    LET added == [i \in (DOMAIN records) \cup Range(ids) |->
                    IF i \in DOMAIN records THEN records[i]
                    ELSE objs[CHOOSE k \in 1..Len(ids) : ids[k] = i]]
    IN  /\ ret' = [seen EXCEPT !.kind = "ok", !.val = ResMemo(got.res, ids, 0)]
        /\ heldRec' = IF got.res.t = "one" /\ Room
                      THEN heldRec \cup {ids[1]} ELSE heldRec
        /\ records' = Sweep(added, heldRec', classes')

Resolved(seen, got) ==
    /\ classes' = got.classes
    /\ objCache' = got.cache
    /\ IF got.err # ""
       THEN /\ ret' = [seen EXCEPT !.kind = got.err]
            /\ UNCHANGED <<records, heldRec>>
       ELSE ResolvedNew(seen, got, ResObjs(got.res),
                        NewIds(DOMAIN records, Len(ResObjs(got.res))))

Resolve(f, ptr) ==
    /\ Tick
    /\ files[f].st = "live"
    /\ Resolved([op |-> "resolve", file |-> f, ptr |-> ptr,
                 closed |-> files[f].closed, kind |-> "ok", val |-> NoneM],
                _from_address(f, ptr, BuildState))
    /\ UNCHANGED <<files, facCache, factories, heldCls>>

\* del obj
DropRecord(r) ==
    /\ Tick
    /\ r \in heldRec
    /\ heldRec' = heldRec \ {r}
    /\ records' = Sweep(records, heldRec', classes)
    /\ ret' = [op |-> "droprecord", rec |-> r, kind |-> "ok"]
    /\ UNCHANGED <<files, facCache, objCache, factories, classes, heldCls>>

\* a == b for two records the caller holds
Compared(a, b, eq) ==
    ret' = [op |-> "eq", a |-> a, b |-> b,
            kind |-> IF eq.err = "" THEN "ok" ELSE eq.err,
            val |-> eq.val]

Compare(a, b) ==
    /\ Tick
    /\ a \in heldRec
    /\ b \in heldRec
    /\ a <= b
    /\ Compared(a, b, __eq__(classes, records[a], records[b]))
    /\ UNCHANGED <<files, facCache, objCache, factories, classes, records, heldRec, heldCls>>

\* obj, _ = BlenderObjectFactory._build_objects(blend, blend.index.structures[i]);
\* the caller keeps obj when a variable is left
\* prev: the decoders of this version and name the caller refers to
Built(f, i, built, prev) ==
    LET keep == built.err = ""
                /\ (built.obj \in heldCls \/ Cardinality(heldCls) < MaxHeldCls)
    IN  /\ classes' = built.classes
        /\ objCache' = built.cache
        /\ heldCls' = IF keep THEN heldCls \cup {built.obj} ELSE heldCls
        /\ ret' = [op |-> "build", file |-> f, sdna |-> i,
                   kind |-> IF built.err = "" THEN "ok" ELSE built.err,
                   val |-> built.obj,
                   new |-> built.obj \notin DOMAIN classes,
                   prev |-> IF prev = {} THEN Dead ELSE CHOOSE c \in prev : TRUE]

BuildObjects(f, i) ==
    /\ Tick
    /\ files[f].st = "live"
    /\ i \in BuildInputs
    /\ Built(f, i, _build_objects(f, At(Index(f).structures, i), BuildState),
             {c \in Reachable :
                 /\ classes[c].VERSION = Header(f).version
                 /\ classes[c].name = At(Index(f).type_names,
                                         At(Index(f).structures, i).index)})
    /\ UNCHANGED <<files, facCache, factories, records, heldRec>>

\* del obj, for a decoder class
DropClass(c) ==
    /\ Tick
    /\ c \in heldCls
    /\ heldCls' = heldCls \ {c}
    /\ ret' = [op |-> "dropclass", cls |-> c, kind |-> "ok"]
    /\ UNCHANGED <<files, facCache, objCache, factories, classes, records, heldRec>>

\* gc.collect(), or a collection the interpreter starts by itself: classes
\* are part of reference cycles and are only freed here, together with the
\* records their descriptors kept; weak references to them die
GcCollect ==
    /\ Tick
    /\ classes' = Restrict(classes, Reachable)
    /\ objCache' = CacheClear(objCache, Reachable)
    /\ records' = Sweep(records, heldRec, classes')
    /\ ret' = [op |-> "gc", kind |-> "ok"]
    /\ UNCHANGED <<files, facCache, factories, heldRec, heldCls>>

\* the names of the pointer fields of the decoder classes
PtrFields == UNION {DOMAIN classes[c].lookup : c \in DOMAIN classes}

\* the paths to records embedded in the records that exist
AllPaths == UNION {Paths(records[r]) : r \in DOMAIN records}

Next ==
    \/ \E f \in Files : Open(f)
    \/ \E f \in Files : Close(f)
    \/ \E f \in Files : FreeFile(f)
    \/ \E f \in Files, n \in ListNames : List(f, n)
    \/ \E f \in Files, n \in FindTypes : Find(f, n)
    \/ \E fa \in DOMAIN factories : DropFactory(fa)
    \/ \E fa \in DOMAIN factories : FactoryFile(fa)
    \/ \E fa \in DOMAIN factories : FactoryLen(fa)
    \/ \E fa \in DOMAIN factories : FactoryRepr(fa)
    \/ \E fa \in DOMAIN factories :
          \E keep \in 0..Len(Blocks(factories[fa].file)) : Iterate(fa, keep)
    \/ \E fa \in DOMAIN factories : Unpack(fa)
    \/ \E fa \in DOMAIN factories, n \in FindNames : FindByName(fa, n)
    \/ \E r \in heldRec, p \in AllPaths, fld \in PtrFields : Deref(r, p, fld)
    \/ \E f \in Files, ptr \in AddrInputs : Resolve(f, ptr)
    \/ \E r \in heldRec : DropRecord(r)
    \/ \E a \in heldRec, b \in heldRec : Compare(a, b)
    \/ \E f \in Files, i \in BuildInputs : BuildObjects(f, i)
    \/ \E c \in heldCls : DropClass(c)
    \/ GcCollect

Spec == Init /\ [][Next]_vars

\* ------------------------------------------------- opening, step by step
\* BlenderFile.__init__ followed through _parse_header and the loop of
\* _parse_blocks, on files that need not be whole.  The frame of the call is
\* kept in ret until the call returns or raises.
\* the file of two blocks and a terminator as the producer of the given
\* pointer width and byte order wrote it
Produced(arch, endian) ==
    IF arch = 95 THEN (IF endian = 118 THEN F2Bytes ELSE F4Bytes)
    ELSE (IF endian = 118 THEN F3Bytes ELSE F5Bytes)

\* the block codes _parse_blocks looks for
Dna1 == <<68, 78, 65, 49>>
Endb == <<69, 78, 68, 66>>

\* where the block of that code starts
CodeAt(bytes, code) ==
    CHOOSE i \in 1..(Len(bytes) - 3) : SubSeq(bytes, i, i + 3) = code

\* the file without its DNA1 block
NoIndex(bytes) ==
    SubSeq(bytes, 1, CodeAt(bytes, Dna1) - 1)
        \o SubSeq(bytes, CodeAt(bytes, Endb), Len(bytes))

\* the file with its DNA1 block moved in front of the other blocks
DnaFirst(bytes) ==
    SubSeq(bytes, 1, 12)
        \o SubSeq(bytes, CodeAt(bytes, Dna1), CodeAt(bytes, Endb) - 1)
        \o SubSeq(bytes, 13, CodeAt(bytes, Dna1) - 1)
        \o SubSeq(bytes, CodeAt(bytes, Endb), Len(bytes))

\* struct.pack of an integer into w bytes, two's complement
RECURSIVE LEBytes(_, _)
LEBytes(n, w) == IF w = 0 THEN <<>> ELSE <<n % 256>> \o LEBytes(n \div 256, w - 1)

Pack(v, w, endian) == LittleOrder(LEBytes(v, w), endian)

\* the bytes from offset at on replaced
Overwrite(bytes, at, new) ==
    SubSeq(bytes, 1, at) \o new \o SubSeq(bytes, at + Len(new) + 1, Len(bytes))

\* the code of the data block of the produced files
Wo == <<87, 79, 0, 0>>

\* the size field of a block header rewritten; back is minus the size of a
\* block header
SizeDamage(back) ==
    [size0 |-> 0, sizeneg |-> -1, sizeback |-> back, sizefar |-> -100,
     sizehuge |-> 1000000]

DnaSizeDamage(back) == [dnasize0 |-> 0, dnasizeneg |-> -1, dnasizeback |-> back]

\* the first byte of a tag of the SDNA overwritten
TagDamage ==
    [tagsdna |-> <<83, 68, 78, 65>>, tagname |-> <<78, 65, 77, 69>>,
     tagtype |-> <<84, 89, 80, 69>>, tagtlen |-> <<84, 76, 69, 78>>,
     tagstrc |-> <<83, 84, 82, 67>>]

\* a field of a block header or of the SDNA rewritten: hs is the size of a
\* block header of the file, endian its byte order
Rewritten(bytes, damage, hs, endian) ==
    IF damage = "version" THEN Overwrite(bytes, 9, <<97, 0, 58>>)
    ELSE IF damage \in DOMAIN SizeDamage(-hs)
    THEN Overwrite(bytes, CodeAt(bytes, Wo) + 3, Pack(SizeDamage(-hs)[damage], 4, endian))
    ELSE IF damage = "sdnatop"
    THEN Overwrite(bytes, CodeAt(bytes, Wo) + hs - 9, Pack(-2147483647, 4, endian))
    ELSE IF damage = "counttop"
    THEN Overwrite(bytes, CodeAt(bytes, Wo) + hs - 5, Pack(-2147483647, 4, endian))
    ELSE IF damage \in DOMAIN DnaSizeDamage(-hs)
    THEN Overwrite(bytes, CodeAt(bytes, Dna1) + 3,
                   Pack(DnaSizeDamage(-hs)[damage], 4, endian))
    ELSE IF damage = "endback"
    THEN Overwrite(bytes, CodeAt(bytes, Endb) + 3, Pack(-100, 4, endian))
    ELSE IF damage \in DOMAIN TagDamage
    THEN Overwrite(bytes, CodeAt(bytes, TagDamage[damage]) - 1, <<88>>)
    ELSE IF damage = "tlentop"
    THEN Overwrite(bytes, CodeAt(bytes, <<84, 76, 69, 78>>) + 3, Pack(-32767, 2, endian))
    ELSE IF damage = "typetop"
    THEN Overwrite(bytes, CodeAt(bytes, <<83, 84, 82, 67>>) + 11, Pack(-32767, 2, endian))
    ELSE IF damage = "nametop"
    THEN Overwrite(bytes, CodeAt(bytes, <<83, 84, 82, 67>>) + 13, Pack(-32766, 2, endian))
    ELSE bytes

\* one byte of the header overwritten, or a field rewritten
Damaged(bytes, damage) ==
    IF damage = "magic" THEN [bytes EXCEPT ![7] = 88]
    ELSE IF damage = "arch" THEN [bytes EXCEPT ![8] = 120]
    ELSE IF damage = "endian" THEN [bytes EXCEPT ![9] = 120]
    ELSE Rewritten(bytes, damage, IF bytes[8] = 95 THEN 20 ELSE 24,
                   IF bytes[9] = 118 THEN "Little" ELSE "Big")

\* the file an input stands for before it is cut short, and what the handle
\* reads
Written(in) ==
    The({Damaged(bytes, in.damage) :
            bytes \in {IF in.kind = "noindex" THEN NoIndex(Produced(in.arch, in.endian))
                       ELSE IF in.kind = "dnafirst"
                       THEN DnaFirst(Produced(in.arch, in.endian))
                       ELSE Produced(in.arch, in.endian)}})

OpenBytes(in) == SubSeq(Written(in), 1, in.cut)

\* BlendBlockHeader: NamedStruct.from_namedtuple(..., _fmt_strct('4siPii'))
HeadFMT(header) ==
    [names  |-> <<"code", "size", "addr", "sdna", "count">>,
     endian |-> header.endian,
     fmt    |-> ReplaceP(<<[c |-> "s", n |-> 4], [c |-> "i", n |-> 1],
                           [c |-> "P", n |-> 1], [c |-> "i", n |-> 1],
                           [c |-> "i", n |-> 1]>>, header.arch)]

\* the lengths a file is cut to: any, but for the files at hand the payload
\* of DNA1 is whole or shorter than 12 bytes
Cuts(arch, endian, kind) ==
    LET bytes == Produced(arch, endian)
    IN  IF kind = "noindex" THEN 0..Len(NoIndex(bytes))
        ELSE {n \in 0..Len(bytes) :
                \/ n < CodeAt(bytes, Dna1) + (IF arch = 95 THEN 20 ELSE 24) + 11
                \/ n >= CodeAt(bytes, Endb) - 1}

OpenInputs ==
    UNION {{[arch |-> a, endian |-> e, kind |-> k, damage |-> d, cut |-> n] :
               n \in Cuts(a, e, k)} :
              a \in {95, 45}, e \in {118, 86}, k \in {"whole", "noindex"},
              d \in {"none", "magic", "arch", "endian"}}

\* ---- _parse_index on the payload read for DNA1.  A str is kept as the
\* sequence of its code points, which for ASCII bytes are the bytes.
TagSdnaName == <<83, 68, 78, 65, 78, 65, 77, 69>>
TagType == <<84, 89, 80, 69>>
TagTlen == <<84, 76, 69, 78>>
TagStrc == <<83, 84, 82, 67>>

\* a slice bound as Python normalises it: negative counts from the end
Clamp(n, len) ==
    IF n < 0 THEN (IF n + len < 0 THEN 0 ELSE n + len)
    ELSE IF n > len THEN len ELSE n

\* data[lo:hi]
Slice(data, lo, hi) ==
    SubSeq(data, Clamp(lo, Len(data)) + 1, Clamp(hi, Len(data)))

\* align(): offset moves to the next multiple of 4
Align(offset) == IF offset % 4 = 0 THEN offset ELSE offset + 4 - (offset % 4)

\* Int.unpack_from(data, offset).val and Short.unpack_from(data, offset).val:
\* 'i' and 'h' under the byte order of the header, w bytes wide
UnpackAt(data, off, w, endian) ==
    IF off < 0 \/ Len(data) - off < w THEN [err |-> "struct.error", val |-> 0]
    ELSE [err |-> "", val |-> Signed(SubSeq(data, off + 1, off + w), endian)]

UnpackFrom(data, offset, w, endian) ==
    UnpackAt(data, IF offset < 0 THEN offset + Len(data) ELSE offset, w, endian)

\* data.split(b'\x00', maxsplit): a negative maxsplit does not limit
RECURSIVE Split(_, _)
Split(data, maxsplit) ==
    IF maxsplit = 0 \/ 0 \notin Range(data) THEN <<data>>
    ELSE The({<<SubSeq(data, 1, IndexOf(data, 0))>> \o Split(rest, maxsplit - 1) :
                 rest \in {SubSeq(data, IndexOf(data, 0) + 2, Len(data))}})

\* [n.decode('utf-8') for n in names]
Decoded(names) ==
    IF \E k \in 1..Len(names) : \E b \in Range(names[k]) : b >= 128
    THEN [err |-> "UnicodeDecodeError", names |-> <<>>]
    ELSE [err |-> "", names |-> names]

\* [n.decode('utf-8') for n in data.split(b'\x00', count)[:-1]]
SplitNames(data, count) ==
    The({Decoded(SubSeq(names, 1, Len(names) - 1)) : names \in {Split(data, count)}})

\* sum((len(n) for n in names)) + len(names)
NamesSize(names) == SumSeq([k \in 1..Len(names) |-> Len(names[k])]) + Len(names)

IndexError(err) == [err |-> err, index |-> <<>>]

\* BlendStructFieldDNA.unpack_from(data, offset) for each of the fields
FieldsAt(data, endian, offset, field_count) ==
    [k \in 1..field_count |->
        [err        |-> UnpackFrom(data, offset + 4 * (k - 1), 4, endian).err,
         index_type |-> UnpackFrom(data, offset + 4 * (k - 1), 2, endian).val,
         index_name |-> UnpackFrom(data, offset + 4 * (k - 1) + 2, 2, endian).val]]

RECURSIVE StructsFrom(_, _, _, _)
StructMade(data, endian, offset, n, index, fields) ==
    IF \E k \in 1..Len(fields) : fields[k].err # ""
    THEN [err |-> "struct.error", structs |-> <<>>]
    ELSE The({IF rest.err # "" THEN rest
              ELSE [err |-> "",
                    structs |-> <<[index  |-> index,
                                   fields |-> [k \in 1..Len(fields) |->
                                                  [index_type |-> fields[k].index_type,
                                                   index_name |-> fields[k].index_name]]]>>
                                \o rest.structs] :
                 rest \in {StructsFrom(data, endian, offset + 4 + 4 * Len(fields),
                                       n - 1)}})

StructRead(data, endian, offset, n, index, field_count) ==
    IF index.err # "" \/ field_count.err # ""
    THEN [err |-> "struct.error", structs |-> <<>>]
    ELSE The({StructMade(data, endian, offset, n, index.val, fields) :
                 fields \in {FieldsAt(data, endian, offset + 4, field_count.val)}})

\* the loop over range(structure_count), from the structure at offset on
StructsFrom(data, endian, offset, n) ==
    IF n <= 0 THEN [err |-> "", structs |-> <<>>]
    ELSE StructRead(data, endian, offset, n,
                    UnpackFrom(data, offset, 2, endian),
                    UnpackFrom(data, offset + 2, 2, endian))

IndexMade(field_names, type_names, size_bytes, endian, structs) ==
    IF structs.err # "" THEN IndexError(structs.err)
    ELSE [err   |-> "",
          index |-> <<[field_names |-> field_names,
                       type_names  |-> type_names,
                       type_sizes  |-> [k \in 1..(Len(size_bytes) \div 2) |->
                                           Signed(SubSeq(size_bytes, 2 * k - 1, 2 * k),
                                                  endian)],
                       structures  |-> structs.structs]>>]

ParseStructs(data, endian, field_names, type_names, size_bytes, offset, count) ==
    IF count.err # "" THEN IndexError(count.err)
    ELSE The({IndexMade(field_names, type_names, size_bytes, endian, structs) :
                 structs \in {StructsFrom(data, endian, offset, count.val)}})

\* Short.iter_unpack checks the length of its buffer when it is called
ParseStrc(data, endian, field_names, type_names, size_bytes, offset) ==
    IF Len(size_bytes) % 2 # 0 THEN IndexError("struct.error")
    ELSE IF Slice(data, offset, offset + 4) # TagStrc
    THEN IndexError("BlenderFileImportException")
    ELSE ParseStructs(data, endian, field_names, type_names, size_bytes,
                      offset + 8, UnpackFrom(data, offset + 4, 4, endian))

\* a parser that takes the type sizes without looking at their tag
ParseTlenLax(data, endian, field_names, type_names, type_count, offset) ==
    The({ParseStrc(data, endian, field_names, type_names, size_bytes,
                   Align(offset + 4 + 2 * type_count)) :
            size_bytes \in {Slice(data, offset + 4, offset + 4 + 2 * type_count)}})

ParseTlen(data, endian, field_names, type_names, type_count, offset) ==
    IF Slice(data, offset, offset + 4) # TagTlen
    THEN IndexError("BlenderFileImportException")
    ELSE The({ParseStrc(data, endian, field_names, type_names, size_bytes,
                        Align(offset + 4 + 2 * type_count)) :
                 size_bytes \in {Slice(data, offset + 4, offset + 4 + 2 * type_count)}})

ParseTypeNames(data, endian, field_names, type_count, offset, type_names) ==
    IF type_names.err # "" THEN IndexError(type_names.err)
    ELSE The({ParseTlen(data, endian, field_names, type_names.names, type_count, next) :
                 next \in {Align(offset + NamesSize(type_names.names) + 8)}})

ParseTypeCount(data, endian, field_names, offset, type_count) ==
    IF type_count.err # "" THEN IndexError(type_count.err)
    ELSE The({ParseTypeNames(data, endian, field_names, type_count.val, offset, names) :
                 names \in {SplitNames(Slice(data, offset + 8, Len(data)),
                                       type_count.val)}})

ParseType(data, endian, field_names, offset) ==
    IF Slice(data, offset, offset + 4) # TagType
    THEN IndexError("BlenderFileImportException")
    ELSE ParseTypeCount(data, endian, field_names, offset,
                        UnpackFrom(data, offset + 4, 4, endian))

ParseFieldNames(data, endian, field_names) ==
    IF field_names.err # "" THEN IndexError(field_names.err)
    ELSE The({ParseType(data, endian, field_names.names, offset) :
                 offset \in {Align(8 + NamesSize(field_names.names) + 4)}})

ParseNameCount(data, endian, name_count) ==
    IF name_count.err # "" THEN IndexError(name_count.err)
    ELSE The({ParseFieldNames(data, endian, names) :
                 names \in {SplitNames(Slice(data, 12, Len(data)), name_count.val)}})

_parse_index(data, endian) ==
    IF Slice(data, 0, 8) # TagSdnaName THEN IndexError("BlenderFileImportException")
    ELSE ParseNameCount(data, endian, UnpackFrom(data, 8, 4, endian))

\* the directory is followed up to MaxHeads entries: in the files at hand a
\* walk that reads more headers than that has come back to one it read
Kept(file_block_heads, entry) ==
    IF Len(file_block_heads) < MaxHeads THEN Append(file_block_heads, entry)
    ELSE file_block_heads

\* handle.seek(file_block_head.size, 1) on a file opened with open(path, 'rb')
Skip(fr, hs, head) ==
    IF fr.pos + hs + head.size < 0
    THEN [fr EXCEPT !.step = "done", !.kind = "OSError"]
    ELSE [fr EXCEPT !.pos = fr.pos + hs + head.size]

\* a walk whose handle stays behind the payload _parse_index has read
BlockParsedAhead(fr, hs, head, parsed) ==
    IF parsed.err # "" THEN [fr EXCEPT !.step = "done", !.kind = parsed.err]
    ELSE Skip([fr EXCEPT !.blend_index = parsed.index,
                         !.pos = fr.pos + (IF head.size < 0 THEN 0 ELSE head.size)],
              hs, head)

\* _parse_index returned, or raised: the handle is back at the payload
BlockParsed(fr, hs, head, parsed) ==
    IF parsed.err # "" THEN [fr EXCEPT !.step = "done", !.kind = parsed.err]
    ELSE Skip([fr EXCEPT !.blend_index = parsed.index], hs, head)

BlockIndex(fr, hs, head, index) ==
    The({BlockParsed(fr, hs, head, parsed) : parsed \in {index}})

\* handle.read(head.size) of a buffered reader: -1 reads to the end of the
\* file, a size below -1 raises ValueError
BlockHead(fr, bytes, hs, head) ==
    IF head.code = Dna1
    THEN IF head.size < -1 THEN [fr EXCEPT !.step = "done", !.kind = "ValueError"]
         ELSE The({BlockIndex(fr, hs, head, _parse_index(data, fr.header.endian)) :
                      data \in {IF head.size < 0
                                THEN PySlice(bytes, fr.pos + hs, Len(bytes))
                                ELSE PySlice(bytes, fr.pos + hs,
                                             fr.pos + hs + head.size)}})
    ELSE IF head.code = Endb
    THEN Skip([fr EXCEPT !.end_found = TRUE], hs, head)
    ELSE Skip([fr EXCEPT !.file_block_heads =
                  Kept(@, [head |-> head, offset |-> fr.pos + hs])], hs, head)

\* one turn of the while loop of _parse_blocks
BlockRead(fr, bytes, hs, un) ==
    IF un.err # "" THEN [fr EXCEPT !.step = "done", !.kind = un.err]
    ELSE BlockHead(fr, bytes, hs,
                   [code  |-> un.vals[1].v,    size |-> un.vals[2].v[1],
                    addr  |-> un.vals[3].v[1], sdna |-> un.vals[4].v[1],
                    count |-> un.vals[5].v[1]])

\* blend = BlenderFile(path) is called
OpenInit ==
    /\ files = [f \in Files |-> [st |-> "new", closed |-> FALSE]]
    /\ facCache = EmptyMap
    /\ objCache = EmptyMap
    /\ factories = EmptyMap
    /\ classes = EmptyMap
    /\ records = EmptyMap
    /\ heldRec = {}
    /\ heldCls = {}
    /\ ops = 0
    /\ ret \in {[op |-> "opening", input |-> in, step |-> "start",
                 header |-> HeaderNone, pos |-> 0, end |-> 0,
                 end_found |-> FALSE, blend_index |-> <<>>,
                 file_block_heads |-> <<>>, kind |-> ""] : in \in OpenInputs}

\* header = _parse_header(handle.read(12)); then end = handle.seek(0, 2) and
\* handle.seek(12, 0)
HeaderRead(header) ==
    IF header = HeaderNone
    THEN ret' = [ret EXCEPT !.step = "done",
                            !.kind = "BlenderFileImportException"]
    ELSE ret' = [ret EXCEPT !.step = "blocks", !.header = header,
                            !.pos = 12, !.end = ret.input.cut]

ReadHeader ==
    /\ ret.op = "opening"
    /\ ret.step = "start"
    /\ \E header \in {_parse_header(PySlice(OpenBytes(ret.input), 0, 12))} :
          HeaderRead(header)
    /\ UNCHANGED <<files, facCache, objCache, factories, classes, records,
                   heldRec, heldCls, ops>>

ReadBlock ==
    /\ ret.op = "opening"
    /\ ret.step = "blocks"
    /\ ret.end # ret.pos
    /\ ~ret.end_found
    /\ \E bytes \in {OpenBytes(ret.input)}, hs \in {FmtSize(HeadFMT(ret.header).fmt)} :
          \E un \in {NamedStructUnpack(HeadFMT(ret.header),
                                       PySlice(bytes, ret.pos, ret.pos + hs))} :
             ret' = BlockRead(ret, bytes, hs, un)
    /\ UNCHANGED <<files, facCache, objCache, factories, classes, records,
                   heldRec, heldCls, ops>>

\* the loop is left: the two checks of _parse_blocks, then the version
\* dictionary of the factory cache
Parsed ==
    /\ ret.op = "opening"
    /\ ret.step = "blocks"
    /\ ret.end = ret.pos \/ ret.end_found
    /\ ret' = [ret EXCEPT !.step = "done",
                          !.kind = IF ret.blend_index = <<>> \/ ~ret.end_found
                                   THEN "BlenderFileImportException" ELSE "ok"]
    /\ facCache' = IF ret.blend_index = <<>> \/ ~ret.end_found
                      \/ ret.header.version \in DOMAIN facCache
                   THEN facCache
                   ELSE Put(facCache, ret.header.version, EmptyMap)
    /\ UNCHANGED <<files, objCache, factories, classes, records,
                   heldRec, heldCls, ops>>

OpenNext ==
    \/ ReadHeader
    \/ ReadBlock
    \/ Parsed

OpenSpec == OpenInit /\ [][OpenNext]_vars

\* ------------------------------------------- two producers, one version
\* Files 2 and 4 in one process: the same blocks and the same SDNA, written
\* by a little-endian and by a big-endian build of version 2.7.7.  The tables
\* and the directory parsed from file 4 are those of file 2; its bytes and
\* its header differ.
MixFiles == {2, 4}

MixInit ==
    /\ files = [f \in MixFiles |-> [st |-> "new", closed |-> FALSE]]
    /\ facCache = EmptyMap
    /\ objCache = EmptyMap
    /\ factories = EmptyMap
    /\ classes = EmptyMap
    /\ records = EmptyMap
    /\ heldRec = {}
    /\ heldCls = {}
    /\ ret = [op |-> "init", kind |-> "ok"]
    /\ ops = 0

MixNext ==
    \/ \E f \in MixFiles : Open(f)
    \/ \E f \in MixFiles : List(f, "World")
    \/ \E fa \in DOMAIN factories : DropFactory(fa)
    \/ \E fa \in DOMAIN factories :
          \E keep \in 0..Len(Blocks(factories[fa].file)) : Iterate(fa, keep)
    \/ \E f \in MixFiles : Resolve(f, 16)
    \/ \E r \in heldRec : DropRecord(r)
    \/ GcCollect

MixSpec == MixInit /\ [][MixNext]_vars

\* ------------------------------------------------- the schema, inspected
\* Files 6 and 7 are opened and their schema is looked at: the descriptors
\* _export_struct derives, the tree of a type, the decoders list builds.
SchemaFiles == {6, 7}

\* the type names the caller asks trees for: structs, a primitive type and
\* a name the type table does not hold
TreeNames == {"Node", "Mat", "rctf", "void", "nope"}

\* the values of max_level the caller passes
MaxLevel == 3

MaxLevels == 0..MaxLevel

SchemaInit ==
    /\ files = [f \in SchemaFiles |-> [st |-> "new", closed |-> FALSE]]
    /\ facCache = EmptyMap
    /\ objCache = EmptyMap
    /\ factories = EmptyMap
    /\ classes = EmptyMap
    /\ records = EmptyMap
    /\ heldRec = {}
    /\ heldCls = {}
    /\ ret = [op |-> "init", kind |-> "ok"]
    /\ ops = 0

\* blend._export_struct(blend.index.structures[i])
Export(f, i) ==
    /\ Tick
    /\ files[f].st = "live"
    /\ ret' = [op |-> "export", file |-> f, sdna |-> i, kind |-> "ok",
               val |-> _export_struct(f, At(Index(f).structures, i))]
    /\ UNCHANGED <<files, facCache, objCache, factories, classes, records,
                   heldRec, heldCls>>

\* text = blend.tree(type_name, recursive, max_level)
Treed(seen, got) ==
    ret' = [seen EXCEPT !.kind = IF got.err = "" THEN "ok" ELSE got.err,
                        !.val = got]

Tree(f, type_name, recursive, max_level) ==
    /\ Tick
    /\ files[f].st = "live"
    /\ Treed([op |-> "tree", file |-> f, name |-> type_name,
              recursive |-> recursive, max_level |-> max_level,
              closed |-> files[f].closed, kind |-> "ok", val |-> <<>>],
             tree(f, type_name, recursive, max_level))
    /\ UNCHANGED <<files, facCache, objCache, factories, classes, records,
                   heldRec, heldCls>>

SchemaNext ==
    \/ \E f \in SchemaFiles : Open(f)
    \/ \E f \in SchemaFiles : Close(f)
    \/ \E f \in SchemaFiles, n \in {"Mat", "Node"} : List(f, n)
    \/ \E f \in SchemaFiles : \E i \in 0..(Len(Index(f).structures) - 1) : Export(f, i)
    \/ \E f \in SchemaFiles, n \in TreeNames, r \in BOOLEAN, m \in MaxLevels :
          Tree(f, n, r, m)

SchemaSpec == SchemaInit /\ [][SchemaNext]_vars

\* ------------------------------------------------- the walk of the blocks
\* The open call on files whose block headers and SDNA hold other values
\* than a producer writes, and on files cut short at any length.
WalkDamages ==
    {"none", "version", "size0", "sizeneg", "sizeback", "sizefar", "sizehuge",
     "sdnatop", "counttop", "dnasize0", "dnasizeneg", "dnasizeback", "endback",
     "tagsdna", "tagname", "tagtype", "tagtlen", "tagstrc",
     "tlentop", "typetop", "nametop"}

WalkInputs ==
    UNION {{[arch |-> a, endian |-> e, kind |-> k, damage |-> d, cut |-> n] :
               n \in IF d = "none" THEN 0..Len(Produced(a, e))
                     ELSE {Len(Produced(a, e))}} :
              a \in {95, 45}, e \in {118, 86}, k \in {"whole", "dnafirst"},
              d \in WalkDamages}

WalkInit ==
    /\ files = [f \in Files |-> [st |-> "new", closed |-> FALSE]]
    /\ facCache = EmptyMap
    /\ objCache = EmptyMap
    /\ factories = EmptyMap
    /\ classes = EmptyMap
    /\ records = EmptyMap
    /\ heldRec = {}
    /\ heldCls = {}
    /\ ops = 0
    /\ ret \in {[op |-> "opening", input |-> in, step |-> "start",
                 header |-> HeaderNone, pos |-> 0, end |-> 0,
                 end_found |-> FALSE, blend_index |-> <<>>,
                 file_block_heads |-> <<>>, kind |-> ""] : in \in WalkInputs}

WalkSpec == WalkInit /\ [][OpenNext]_vars

\* the whole files whose block sizes were rewritten
SizeInputs ==
    {in \in WalkInputs :
        in.damage \in {"none", "size0", "sizeneg", "sizeback", "sizefar", "sizehuge",
                       "dnasize0", "dnasizeneg", "dnasizeback", "endback"}
        /\ in.cut = Len(Written(in))}

SizeInit ==
    /\ files = [f \in Files |-> [st |-> "new", closed |-> FALSE]]
    /\ facCache = EmptyMap
    /\ objCache = EmptyMap
    /\ factories = EmptyMap
    /\ classes = EmptyMap
    /\ records = EmptyMap
    /\ heldRec = {}
    /\ heldCls = {}
    /\ ops = 0
    /\ ret \in {[op |-> "opening", input |-> in, step |-> "start",
                 header |-> HeaderNone, pos |-> 0, end |-> 0,
                 end_found |-> FALSE, blend_index |-> <<>>,
                 file_block_heads |-> <<>>, kind |-> ""] : in \in SizeInputs}

\* the open call is one sequential computation: it goes on until it returns
\* or raises
WalkLive == SizeInit /\ [][OpenNext]_vars /\ WF_vars(OpenNext)

\* ------------------------------------------------------------------ claims
\* the cache entries of the type a list call asked for
ListVersion == Header(ret.file).version

\* C1: the factory F.list(T) returns is bound to F: factory.file is F,
\* whatever files are open and whatever list calls came before.
C1_ListBoundToFile ==
    (ret.op = "list" /\ ret.kind = "ok") => factories[ret.val].file = ret.file

\* the record a pointer read went through, and the address of the block a
\* record was decoded from
DerefInstance == ObjAt(records[ret.rec], ret.path)

OriginAddr(rec) == Blocks(rec.origin.file)[rec.origin.block].head.addr

\* a read of a single-pointer field that returned
SingleRead ==
    /\ ret.op = "deref"
    /\ ret.kind = "ok"
    /\ ret.ptr # <<>>
    /\ ret.ptr[1].t = "int"

\* C2: pointer reads are memoized per (record, field): what a read of r.f
\* returned is what the next read of r.f returns, and a read of r2.f on
\* another record resolves the address stored in r2, never the result kept
\* for r.
C2_MemoPerRecord ==
    SingleRead =>
        /\ ret.val # NoneM => classes[DerefInstance.cls].lookup[ret.fld] = ret.val
        /\ ret.val.t = "rec" =>
              /\ OriginAddr(records[ret.val.v[1]]) = ret.ptr[1].v[1]
              /\ records[ret.val.v[1]].origin.file = ret.file

\* C3: after any earlier reads, reading a single-pointer field returns None
\* if and only if the address stored in the record is zero.
C3_NullIffZero ==
    SingleRead => ((ret.val = NoneM) <=> (ret.ptr[1].v[1] = 0))

\* C4: after F.close(), len, repr, iteration and find_by_name on a factory
\* of F, and a pointer read on a record of F, fail with the error the class
\* documents for a closed or freed parent file (RuntimeError).
C4_ClosedRaises ==
    /\ (ret.op \in {"len", "repr", "iter", "find_by_name"}
           /\ ret.on.closed /\ ret.on.early)
          => ret.kind = "RuntimeError"
    /\ (ret.op = "deref" /\ ret.closed) => ret.kind = "RuntimeError"

\* C5: a factory refers to its file weakly: the file is freed as soon as
\* the caller drops it, and from then on the file property, len, repr,
\* iteration and find_by_name of the factory raise RuntimeError.
C5_FreedRaises ==
    /\ ret.op = "free" => ~FileAlive(ret.file)
    /\ (ret.op \in {"file", "len", "repr", "iter", "find_by_name"} /\ ret.on.freed)
          => ret.kind = "RuntimeError"

\* both cache entries of a held factory are live and are the factory and its
\* decoder
HeldFactoryCached ==
    \A fa \in DOMAIN factories :
        LET version == Header(factories[fa].file).version
            name    == factories[fa].object_name
        IN  /\ CacheGet(facCache, version, name) = fa
            /\ CacheGet(objCache, version, name) = factories[fa].object

\* the types whose factory was listed and is not held any more
DroppedTypes ==
    {vn \in UNION {{<<v, n>> : n \in DOMAIN facCache[v]} : v \in DOMAIN facCache} :
        facCache[vn[1]][vn[2]] = Dead}

\* C6 as stated: while a factory for T is held both cache entries of
\* (version, T) are live; once it is dropped and a collection has run both
\* entries are dead; a later list(T) builds a new factory and decoder and
\* both entries are live again.
C6_BothEntriesDie ==
    /\ HeldFactoryCached
    /\ ret.op = "gc" =>
          \A vn \in DroppedTypes : CacheGet(objCache, vn[1], vn[2]) = Dead
    /\ (ret.op = "list" /\ ret.kind = "ok") =>
          /\ ret.was.fac # "live" => ret.new
          /\ EntryState(facCache, ListVersion, ret.name) = "live"
          /\ EntryState(objCache, ListVersion, ret.name) = "live"

\* C6: the caches hold weak references.  A held factory has both entries
\* live.  The factory entry is dead as soon as the factory is dropped.  A
\* live entry refers to an object that exists, and after a collection the
\* decoder entries that are live are those of the decoders something the
\* caller holds still refers to (a factory, a record, a class, directly or
\* through embedded structs and memoized records).  list(T) after the drop
\* returns a new factory and leaves both entries live.
C6_WeakCaches ==
    /\ HeldFactoryCached
    /\ \A v \in DOMAIN facCache : \A n \in DOMAIN facCache[v] :
          facCache[v][n] # Dead => facCache[v][n] \in DOMAIN factories
    /\ \A v \in DOMAIN objCache : \A n \in DOMAIN objCache[v] :
          objCache[v][n] # Dead =>
              /\ objCache[v][n] \in DOMAIN classes
              /\ classes[objCache[v][n]].name = n
              /\ classes[objCache[v][n]].VERSION = v
              /\ ret.op = "gc" => objCache[v][n] \in Reachable
    /\ ret.op = "gc" => DOMAIN classes = Reachable
    /\ (ret.op = "list" /\ ret.kind = "ok") =>
          /\ (ret.was.fac # "live") <=> ret.new
          /\ facCache[ListVersion][ret.name] = ret.val
          /\ objCache[ListVersion][ret.name] = factories[ret.val].object

\* list(T) after the factory and the decoder of T were dropped and collected
C6_Rebuilt ==
    /\ ret.op = "list"
    /\ ret.kind = "ok"
    /\ ret.was = [fac |-> "dead", obj |-> "dead"]
    /\ ret.new

\* C7: synthesizing the decoder of the same (version, struct name) again
\* returns the decoder the caller still holds from the first call and creates
\* no second class: there is never more than one decoder class of a
\* (version, name).
C7_SameDecoder ==
    /\ \A c1, c2 \in DOMAIN classes :
          (classes[c1].VERSION = classes[c2].VERSION /\ classes[c1].name = classes[c2].name)
             => c1 = c2
    /\ (ret.op = "build" /\ ret.kind = "ok" /\ ret.prev # Dead) =>
          /\ ret.val = ret.prev
          /\ ~ret.new

\* a second _build_objects call for a struct whose decoder the caller holds
C7_SecondCall ==
    /\ ret.op = "build"
    /\ ret.kind = "ok"
    /\ ret.prev # Dead
    /\ ret.prev \in heldCls

\* the names of the non-pointer scalar fields the schema gives the struct of
\* a record
ScalarFields(fields) ==
    {fields[k].name : k \in {j \in 1..Len(fields) :
                                /\ ~fields[j].ptr
                                /\ fields[j].type \in DOMAIN BaseTypes}}

ScalarNames(rec) ==
    ScalarFields(_export_struct(rec.file,
        SelectSeq(Index(rec.file).structures,
                  LAMBDA x : At(Index(rec.file).type_names, x.index)
                                = classes[rec.cls].name)[1]).fields)

SameScalars(a, b) ==
    \A n \in ScalarNames(a) :
        /\ n \in DOMAIN a.attrs
        /\ n \in DOMAIN b.attrs
        /\ PyEq(a.attrs[n], b.attrs[n])

\* C8: two records compare equal if and only if they have the same type and
\* are equal on all of their non-pointer scalar fields.
C8_EqIffScalars ==
    (ret.op = "eq" /\ ret.kind = "ok") =>
        (ret.val <=> /\ records[ret.a].cls = records[ret.b].cls
                     /\ SameScalars(records[ret.a], records[ret.b]))

\* C9: the records a factory yields for the same block in two iterations or
\* two find_by_name calls are distinct objects that compare equal.
C9_SameBlockEqual ==
    /\ (ret.op \in {"iter", "find_by_name"} /\ ret.kept # Dead) =>
          ret.kept \in heldRec
    /\ \A a, b \in heldRec :
          (/\ a # b
           /\ records[a].origin.via = "factory"
           /\ records[b].origin = records[a].origin)
             => __eq__(classes, records[a], records[b]).val

\* the directory entries of the file of the last pointer read whose address
\* is the pointer, when they hold one struct
Targets ==
    {i \in 1..Len(Blocks(ret.file)) :
        /\ Blocks(ret.file)[i].head.addr = ret.ptr[1].v[1]
        /\ Blocks(ret.file)[i].head.count = 1}

\* the record the factory of the struct of directory entry i yields for it
Yielded(f, i, c) ==
    NewObject(classes, c, f,
              PySlice(FileBytes(f), Blocks(f)[i].offset,
                      Blocks(f)[i].offset + Blocks(f)[i].head.size),
              [file |-> f, block |-> i, k |-> 0, via |-> "factory"]).obj[1]

\* C10: reading a pointer whose address is that of a block of one struct
\* with schema index i yields a record of the decoder class of
\* structures[i], equal to the record the factory yields for the block and
\* distinct from it.
C10_DerefDecodesBlock ==
    SingleRead =>
        \A i \in Targets :
            LET f    == ret.file
                name == At(Index(f).type_names,
                           At(Index(f).structures, Blocks(f)[i].head.sdna).index)
                c    == CacheGet(objCache, Header(f).version, name)
            IN  /\ ret.val.t = "rec"
                /\ c # Dead
                /\ records[ret.val.v[1]].cls = c
                /\ records[ret.val.v[1]].origin.via = "address"
                /\ __eq__(classes, records[ret.val.v[1]], Yielded(f, i, c)).val

\* a pointer read that went through the resolver: the descriptor had kept
\* nothing and the record had the attribute
FreshRead ==
    /\ ret.op = "deref"
    /\ ret.kind = "ok"
    /\ ~ret.hit
    /\ ret.ptr # <<>>

\* the (address, result) pairs of the last read: one for a single pointer,
\* one per nonzero entry for an array of pointers
DerefEntries ==
    IF ret.ptr[1].t = "int"
    THEN IF ret.ptr[1].v[1] = 0 THEN {} ELSE {<<ret.ptr[1].v[1], ret.val>>}
    ELSE IF ret.ptr[1].t = "tuple"
    THEN {<<ret.ptr[1].v[k].v[1], ret.val.v[k]>> :
             k \in {j \in 1..Len(ret.ptr[1].v) : ret.ptr[1].v[j] # IntV(0)}}
    ELSE {}

\* the directory entry an address resolves to: the last one with that address
LastBlock(f, addr) ==
    CHOOSE i \in 1..Len(Blocks(f)) :
        /\ Blocks(f)[i].head.addr = addr
        /\ \A j \in 1..Len(Blocks(f)) : Blocks(f)[j].head.addr = addr => j <= i

\* the size the SDNA gives the struct of directory entry i
TotalSize(f, i) ==
    At(Index(f).type_sizes, At(Index(f).structures, Blocks(f)[i].head.sdna).index)

\* the decoder class of the struct of directory entry i
DecoderOf(f, i) ==
    CacheGet(objCache, Header(f).version,
             At(Index(f).type_names,
                At(Index(f).structures, Blocks(f)[i].head.sdna).index))

\* the k-th struct of directory entry i, decoded from its own bytes
ElementOf(f, i, k) ==
    NewObject(classes, DecoderOf(f, i), f,
              PySlice(FileBytes(f), Blocks(f)[i].offset + k * TotalSize(f, i),
                      Blocks(f)[i].offset + (k + 1) * TotalSize(f, i)),
              [file |-> f, block |-> i, k |-> k, via |-> "address"]).obj[1]

\* what resolving to directory entry i gave is what the count of the block
\* says: one record, or count records each decoded from its slice
CountRecords(f, i, got) ==
    IF Blocks(f)[i].head.count = 1
    THEN /\ got.t = "rec"
         /\ records[got.v[1]] = ElementOf(f, i, 0)
    ELSE /\ got.t = "tuple"
         /\ Len(got.v) = Blocks(f)[i].head.count
         /\ \A k \in 1..Len(got.v) : records[got.v[k]] = ElementOf(f, i, k - 1)

\* C11: resolving an address whose block has count 1 gives one record; for
\* any other count it gives a sequence of exactly count records, the k-th
\* decoded from payload bytes [k*total_size, (k+1)*total_size) of the block.
C11_CountRecords ==
    FreshRead =>
        \A e \in DerefEntries : CountRecords(ret.file, LastBlock(ret.file, e[1]), e[2])

\* a single pointer resolved to the block of two rctf structs
C11_TwoRecords ==
    /\ FreshRead
    /\ ret.ptr[1].t = "int"
    /\ ret.val.t = "tuple"
    /\ Len(ret.val.v) = 2
    /\ Blocks(ret.file)[LastBlock(ret.file, ret.ptr[1].v[1])].head.count = 2

\* the number of elements the schema declares for field fld of the struct of
\* a record
ArrayLen(rec, fld) ==
    LET fields == _export_struct(rec.file,
                      SelectSeq(Index(rec.file).structures,
                                LAMBDA x : At(Index(rec.file).type_names, x.index)
                                              = classes[rec.cls].name)[1]).fields
    IN  fields[CHOOSE k \in 1..Len(fields) : fields[k].name = fld].count

\* a read of a pointer-array field that returned
ArrayRead ==
    /\ ret.op = "deref"
    /\ ret.kind = "ok"
    /\ ret.ptr # <<>>
    /\ ret.ptr[1].t = "tuple"

\* the directory entry the records of a resolution were decoded from
EntryBlock(got) == records[got.v[1]].origin.block

\* C12: a pointer field declared as an array of n pointers reads as a
\* sequence of exactly n entries in declaration order; entry k is None when
\* the k-th stored address is zero and otherwise the resolution of the k-th
\* address, whatever the other entries are.
C12_PointerArray ==
    ArrayRead =>
        /\ ret.val.t = "list"
        /\ Len(ret.val.v) = ArrayLen(DerefInstance, ret.fld)
        /\ Len(ret.val.v) = Len(ret.ptr[1].v)
        /\ \A k \in 1..Len(ret.val.v) :
              IF ret.ptr[1].v[k] = IntV(0) THEN ret.val.v[k] = NoneM
              ELSE /\ ret.val.v[k] # NoneM
                   /\ EntryBlock(ret.val.v[k])
                         = LastBlock(ret.file, ret.ptr[1].v[k].v[1])
                   /\ CountRecords(ret.file, EntryBlock(ret.val.v[k]), ret.val.v[k])

\* no directory entry of file f has the address
Dangling(f, addr) == \A i \in 1..Len(Blocks(f)) : Blocks(f)[i].head.addr # addr

\* the last call handed the resolver of a live file an address no block has:
\* directly, or by a first read of a single-pointer field
DanglingCall ==
    \/ /\ ret.op = "resolve"
       /\ Dangling(ret.file, ret.ptr)
    \/ /\ ret.op = "deref"
       /\ ret.ptr # <<>>
       /\ ~ret.hit
       /\ ~ret.freed
       /\ ret.ptr[1].t = "int"
       /\ ret.ptr[1].v[1] # 0
       /\ Dangling(ret.file, ret.ptr[1].v[1])

\* C13: resolving an address that is the address of no directory block,
\* zero included, raises BlenderFileReadException, and the failed call
\* changes nothing: no descriptor keeps a value, and the files, the caches,
\* the factories, the decoder classes and the records are what they were.
C13_DanglingRaises ==
    [][DanglingCall' =>
          /\ ret'.kind = "BlenderFileReadException"
          /\ UNCHANGED <<files, facCache, objCache, factories, classes,
                         records, heldRec, heldCls>>]_vars

\* a first read of a pointer field whose address no block has
C13_DanglingRead ==
    /\ DanglingCall
    /\ ret.op = "deref"
    /\ ret.kind = "BlenderFileReadException"

\* the struct a factory was made for has an embedded ID as its first field
IdFirst(f, struct_name) ==
    LET struct == SelectSeq(Index(f).structures,
                            LAMBDA x : At(Index(f).type_names, x.index) = struct_name)[1]
        first  == _export_struct(f, struct).fields[1]
    IN  first.type = "ID" /\ ~first.ptr

\* the bytes of id.name of the record of directory entry i, from offset 2 up
\* to the first NUL
NameSuffix(f, i, c) ==
    LET _name == Yielded(f, i, c).attrs[<<"i", "d">>].v[1].attrs[<<"n", "a", "m", "e">>].v
        nul   == CHOOSE k \in 1..Len(_name) :
                    _name[k] = 0 /\ \A j \in 1..(k - 1) : _name[j] # 0
    IN  SubSeq(_name, 3, nul - 1)

\* the directory entries of the factory of the last call whose record has
\* the name asked for
NamedBlocks ==
    {i \in 1..Len(Blocks(ret.on.file)) :
        /\ Blocks(ret.on.file)[i].head.sdna = factories[ret.on.fac].sdna_index
        /\ NameSuffix(ret.on.file, i, factories[ret.on.fac].object) = Encode(ret.name)}

\* a find_by_name call on a factory of a nameable struct whose file is open
NamedFind ==
    /\ ret.op = "find_by_name"
    /\ ~ret.on.closed
    /\ ~ret.on.freed
    /\ IdFirst(ret.on.file, ret.on.struct)

\* C14: find_by_name(s) returns the record of the first block in directory
\* order whose id.name, from offset 2 up to the first NUL, is s byte for
\* byte, and raises KeyError when no record of the factory's type has that
\* name.
C14_FirstByName ==
    NamedFind =>
        IF NamedBlocks = {} THEN ret.kind = "KeyError"
        ELSE /\ ret.kind = "ok"
             /\ Len(ret.val) = 1
             /\ ret.val[1].origin.block = MinOf(NamedBlocks)
             /\ ret.val[1] = Yielded(ret.on.file, MinOf(NamedBlocks),
                                     factories[ret.on.fac].object)

\* find_by_name returned the first of two records of the same name
C14_FirstOfTwo ==
    /\ NamedFind
    /\ ret.kind = "ok"
    /\ Cardinality(NamedBlocks) = 2

\* C15: find_by_name on a factory of a struct type whose first field is not
\* an embedded ID raises BlenderFileReadException, whatever the state of the
\* file: no block is read first.
C15_Unnameable ==
    (ret.op = "find_by_name" /\ ~IdFirst(ret.on.file, ret.on.struct))
        => ret.kind = "BlenderFileReadException"

\* the names of the struct types of the SDNA of file f
StructNames(f) ==
    {At(Index(f).type_names, Index(f).structures[k].index) :
        k \in 1..Len(Index(f).structures)}

\* C16: list(T) raises BlenderFileReadException whenever T is not the name
\* of a struct, be it absent from the type table or the name of a primitive
\* type, and no factory is cached under T.
C16_NotAStruct ==
    (ret.op = "list" /\ ret.name \notin StructNames(ret.file)) =>
        /\ ret.kind = "BlenderFileReadException"
        /\ EntryState(facCache, ListVersion, ret.name) = "absent"

\* the directory entries of the struct of the factory of the last call
OwnBlocks ==
    {i \in 1..Len(Blocks(ret.on.file)) :
        Blocks(ret.on.file)[i].head.sdna = factories[ret.on.fac].sdna_index}

\* C17: iterating a factory bound to structure index i yields exactly one
\* record per directory block whose schema index is i, in directory order,
\* each decoded from its block, and len() is the number of such blocks.
C17_OnePerBlock ==
    /\ (ret.op \in {"iter", "unpack"} /\ ~ret.on.closed /\ ~ret.on.freed) =>
          /\ ret.op = "iter" => ret.kind = "ok"
          /\ Len(ret.val) = Cardinality(OwnBlocks)
          /\ \A k \in 1..Len(ret.val) :
                /\ ret.val[k].origin.block \in OwnBlocks
                /\ ret.val[k] = Yielded(ret.on.file, ret.val[k].origin.block,
                                        factories[ret.on.fac].object)
                /\ \A j \in 1..(k - 1) :
                      ret.val[j].origin.block < ret.val[k].origin.block
    /\ (ret.op = "len" /\ ~ret.on.freed) =>
          /\ ret.kind = "ok"
          /\ ret.val = Cardinality(OwnBlocks)

\* an iteration that yielded the records of two blocks
C17_TwoYielded ==
    /\ ret.op = "iter"
    /\ ret.kind = "ok"
    /\ Len(ret.val) = 2
    /\ Cardinality(OwnBlocks) = 2

\* the file of the open call is not a whole blend file: a byte of its header
\* is wrong, it has no DNA1 block, or it ends before the end of what was
\* written (inside a block header, inside a payload, or before ENDB)
Malformed(in) ==
    \/ in.damage # "none"
    \/ in.kind = "noindex"
    \/ in.cut < Len(Written(in))

\* C18: opening a file that has an invalid header, ends inside a block
\* header or a payload, has no DNA1 block or has no ENDB terminator raises
\* BlenderFileImportException and no other exception.
C18_ImportErrorOnly ==
    (ret.op = "opening" /\ ret.step = "done" /\ Malformed(ret.input))
        => ret.kind = "BlenderFileImportException"

\* the bytes handle.read(12) returned to the open call
HeaderBytes == PySlice(OpenBytes(ret.input), 0, 12)

\* 12 bytes: 'BLENDER', then '_' or '-', then 'v' or 'V', then the version
GoodHeader(h) ==
    /\ Len(h) = 12
    /\ SubSeq(h, 1, 7) = <<66, 76, 69, 78, 68, 69, 82>>
    /\ h[8] \in {95, 45}
    /\ h[9] \in {118, 86}

\* C19: header parsing succeeds exactly when the input is 12 bytes long,
\* starts with 'BLENDER', has '_' or '-' as byte 7 and 'v' or 'V' as byte 8;
\* then pointers are 4 bytes wide for '_' and 8 for '-', and the byte order
\* is little for 'v' and big for 'V'.  In every other case the open call
\* raises BlenderFileImportException.
C19_HeaderParsed ==
    (ret.op = "opening" /\ ret.step # "start") =>
        IF GoodHeader(HeaderBytes)
        THEN /\ ret.header # HeaderNone
             /\ CodeSize[ArchValue(ret.header.arch)]
                   = (IF HeaderBytes[8] = 95 THEN 4 ELSE 8)
             /\ ret.header.endian
                   = (IF HeaderBytes[9] = 118 THEN "Little" ELSE "Big")
        ELSE /\ ret.header = HeaderNone
             /\ ret.step = "done"
             /\ ret.kind = "BlenderFileImportException"

\* the header of a 64-bit big-endian file was parsed
C19_WideBig ==
    /\ ret.op = "opening"
    /\ ret.step # "start"
    /\ GoodHeader(HeaderBytes)
    /\ HeaderBytes[8] = 45
    /\ HeaderBytes[9] = 86
    /\ ret.header.arch = "X64"
    /\ ret.header.endian = "Big"

\* how list(T) ends when called in this state: "ok", or the exception
ListWould(f, name) ==
    IF CacheGet(facCache, Header(f).version, name) # Dead THEN "ok"
    ELSE IF name \notin Range(Index(f).type_names) THEN "BlenderFileReadException"
    ELSE IF NewFactory(f, IndexOf(Index(f).type_names, name), BuildState).err = ""
    THEN "ok"
    ELSE NewFactory(f, IndexOf(Index(f).type_names, name), BuildState).err

\* C20: BlenderFile.find(T) is an alias of list(T): for every type name T
\* it returns the cached factory list(T) returns, or raises the error
\* list(T) raises.
C20_FindIsList ==
    ret.op = "find" =>
        /\ ret.kind = ListWould(ret.file, ret.name)
        /\ CacheGet(facCache, Header(ret.file).version, ret.name) # Dead =>
              ret.val = CacheGet(facCache, Header(ret.file).version, ret.name)

\* the fields the schema declares for the struct of directory entry i
BlockFields(f, i) ==
    _export_struct(f, At(Index(f).structures, Blocks(f)[i].head.sdna)).fields

\* the payload of directory entry i
Payload(f, i) ==
    PySlice(FileBytes(f), Blocks(f)[i].offset,
            Blocks(f)[i].offset + Blocks(f)[i].head.size)

\* the bytes of field k of a struct that starts at byte 0 of data: the sizes
\* of the fields before it give its offset
FieldBytes(fields, k, data) ==
    PySlice(data, SumSeq([j \in 1..(k - 1) |-> fields[j].size]),
            SumSeq([j \in 1..k |-> fields[j].size]))

\* the value of a base-type field decoded from its own bytes: one value, or
\* a tuple for an array that is not a string
ScalarAt(f, fld, bytes) ==
    IF fld.count > 1 /\ fld.type # "char"
    THEN TupleV(UnpackItem(FieldFmt(fld), Header(f).endian, bytes))
    ELSE UnpackItem(FieldFmt(fld), Header(f).endian, bytes)[1]

\* record rec has every base-type field of its struct, with the value found
\* at the offset of the field in the payload of its block
ScalarsDecoded(rec, fields) ==
    \A k \in 1..Len(fields) :
        (~fields[k].ptr /\ fields[k].type \in DOMAIN BaseTypes) =>
            /\ fields[k].name \in DOMAIN rec.attrs
            /\ rec.attrs[fields[k].name]
                  = ScalarAt(rec.file, fields[k],
                             FieldBytes(fields, k,
                                        Payload(rec.file, rec.origin.block)))

\* C30: every record a factory iteration yields exposes each declared scalar
\* field under its base name with the value decoded at the offset of that
\* field in the payload of the block, for every matching block, blocks that
\* hold more than one struct included.
C30_ScalarsAtOffsets ==
    (ret.op \in {"iter", "unpack"} /\ ret.kind \in {"ok", "ValueError"}) =>
        \A k \in 1..Len(ret.val) :
            ScalarsDecoded(ret.val[k],
                           BlockFields(ret.val[k].file, ret.val[k].origin.block))

\* the structure the schema of file f declares under the name of class c
StructOf(f, c) ==
    SelectSeq(Index(f).structures,
              LAMBDA x : At(Index(f).type_names, x.index) = classes[c].name)[1]

\* class c decodes the way file f is written: the byte order of f, and the
\* format compiled from the fields of f's schema with pointers of f's width
DecodesAs(c, f) ==
    /\ classes[c].FMT.endian = Header(f).endian
    /\ classes[c].FMT.fmt
          = ReplaceP(compile_fmt(_export_struct(f, StructOf(f, c)).fields).fmt,
                     Header(f).arch)

\* the records the last call materialized
Materialized ==
    IF ret.op = "iter" /\ ret.kind = "ok" THEN Range(ret.val)
    ELSE IF /\ ret.op = "resolve"
            /\ ret.kind = "ok"
            /\ ret.val.t = "rec"
            /\ ret.val.v[1] \in DOMAIN records
    THEN {records[ret.val.v[1]]}
    ELSE {}

\* C29: every record materialized from file F is decoded with F's own
\* endianness, pointer width and SDNA field layout, for any sequence of opens
\* and list calls, also when another file of the same version triple but of
\* another byte order had its decoders synthesized earlier and they are
\* still cached.
C29_OwnDecoder ==
    \A rec \in Materialized : DecodesAs(rec.cls, rec.origin.file)


\* ------------------------------------------------------------------ C21
\* the fields a struct type declares, in declaration order, as the pairs of
\* type name and raw field name
DeclaredOf(f, s) ==
    [k \in 1..Len(s.fields) |->
        <<At(Index(f).type_names, s.fields[k].index_type),
          At(Index(f).field_names, s.fields[k].index_name)>>]

Declared(f, type_name) ==
    DeclaredOf(f, CHOOSE s \in Range(Index(f).structures) :
                     At(Index(f).type_names, s.index) = type_name)

\* the lines nested directly under line p: one level deeper, with no line
\* of p's level or above in between
Under(lines, p) ==
    SelectSeq([q \in 1..Len(lines) |->
                  IF /\ q > p
                     /\ lines[q].indent = lines[p].indent + 1
                     /\ \A m \in (p + 1)..q : lines[m].indent > lines[p].indent
                  THEN <<lines[q].type, lines[q].name>> ELSE <<>>],
              LAMBDA x : x # <<>>)

TopLevel(lines) ==
    SelectSeq([q \in 1..Len(lines) |->
                  IF lines[q].indent = 0 THEN <<lines[q].type, lines[q].name>> ELSE <<>>],
              LAMBDA x : x # <<>>)

TreeShape(f, name, recursive, max_level, lines) ==
    /\ TopLevel(lines) = Declared(f, name)
    /\ \A p \in 1..Len(lines) :
          /\ lines[p].indent \in 0..max_level
          /\ p > 1 => lines[p].indent <= lines[p - 1].indent + 1
          /\ Under(lines, p) =
                IF /\ recursive
                   /\ lines[p].type \in StructNames(f)
                   /\ "*" \notin Range(lines[p].name)
                   /\ lines[p].indent < max_level
                THEN Declared(f, lines[p].type) ELSE <<>>

\* C21: a tree that is returned starts with the type name and the header's
\* version, lists the direct fields of the type in declaration order, lists
\* under a line the fields of its type exactly when recursive is set, the
\* type is a struct, the name holds no '*' and the line is above max_level,
\* nests no line deeper than max_level, and is the same for every file with
\* the same names, structures and version.
C21_Tree ==
    (ret.op = "tree" /\ ret.kind = "ok") =>
        /\ ret.val.head = <<ret.name, Header(ret.file).version>>
        /\ TreeShape(ret.file, ret.name, ret.recursive, ret.max_level, ret.val.lines)
        /\ \A g \in SchemaFiles :
              (/\ Index(g).field_names = Index(ret.file).field_names
               /\ Index(g).type_names = Index(ret.file).type_names
               /\ Index(g).structures = Index(ret.file).structures
               /\ Header(g).version = Header(ret.file).version)
              => tree(g, ret.name, ret.recursive, ret.max_level) = ret.val

\* the tree of Node cut at level 1: Mat's fields are listed, theirs are not
C21_Witness ==
    /\ ret.op = "tree" /\ ret.kind = "ok"
    /\ ret.name = "Node" /\ ret.recursive /\ ret.max_level = 1
    /\ Len(ret.val.lines) = 12
    /\ \E p \in 1..Len(ret.val.lines) :
          ret.val.lines[p] = [indent |-> 1, type |-> "ID", name |-> <<"i", "d">>]


\* ------------------------------------------------------------------ C23
\* a raw field name that begins with "(*" and holds ")()"
IsFunctionPointer(raw) ==
    /\ Len(raw) >= 2 /\ raw[1] = "(" /\ raw[2] = "*"
    /\ \E i \in 1..(Len(raw) - 2) : SubSeq(raw, i, i + 2) = <<")", "(", ")">>

RawNames(f, struct) ==
    [k \in 1..Len(struct.fields) |-> At(Index(f).field_names, struct.fields[k].index_name)]

HoldsFunctionPointer(f, type_name) ==
    \E s \in Range(Index(f).structures) :
        /\ At(Index(f).type_names, s.index) = type_name
        /\ \E k \in 1..Len(s.fields) : IsFunctionPointer(RawNames(f, s)[k])

\* C23: the descriptor of a function pointer field is a pointer of the
\* file's pointer width, and the decoder of a struct that holds a function
\* pointer is built.
C23_FunctionPointer ==
    /\ ret.op = "export" =>
          \A k \in 1..Len(ret.val.fields) :
              IsFunctionPointer(RawNames(ret.file, At(Index(ret.file).structures, ret.sdna))[k])
              => /\ ret.val.fields[k].ptr
                 /\ ret.val.fields[k].size = (IF Header(ret.file).arch = "X64" THEN 8 ELSE 4)
    /\ (ret.op = "list" /\ HoldsFunctionPointer(ret.file, ret.name)) => ret.kind = "ok"


\* ------------------------------------------------------------------ C24
\* the bracketed dimensions of a raw name: for every "[" closed by a "]"
\* with only digits in between, the number the digits spell
Brackets(raw) ==
    {<<i, j>> \in (1..Len(raw)) \X (1..Len(raw)) :
        /\ raw[i] = "[" /\ raw[j] = "]" /\ j > i + 1
        /\ \A m \in (i + 1)..(j - 1) : IsDigit(raw[m])}

RECURSIVE ProductOver(_, _)
ProductOver(raw, bs) ==
    IF bs = {} THEN 1
    ELSE LET b == CHOOSE x \in bs : TRUE
         IN  IntOfStr(SubSeq(raw, b[1] + 1, b[2] - 1)) * ProductOver(raw, bs \ {b})

\* the raw name without its leading '*' characters and its bracket suffix
BaseName(raw) ==
    LET first == CHOOSE i \in 1..(Len(raw) + 1) :
                     /\ \A m \in 1..(i - 1) : raw[m] = "*"
                     /\ i <= Len(raw) => raw[i] # "*"
        last  == IF "[" \in Range(raw)
                 THEN (CHOOSE i \in 1..Len(raw) :
                          raw[i] = "[" /\ \A m \in 1..(i - 1) : raw[m] # "[") - 1
                 ELSE Len(raw)
    IN  SubSeq(raw, first, last)

Described(f, fld, raw, type_index) ==
    /\ fld.size = (IF fld.ptr THEN (IF Header(f).arch = "X64" THEN 8 ELSE 4)
                   ELSE At(Index(f).type_sizes, type_index))
                  * ProductOver(raw, Brackets(raw))
    /\ fld.name = BaseName(raw)

\* C24: in every descriptor _export_struct derives, the size of a field is
\* the pointer width for a pointer and the size of its type otherwise, times
\* the product of all bracketed dimensions of the raw name, and its name is
\* the raw name without leading '*' and without the brackets.
C24_SizeAndName ==
    ret.op = "export" =>
        \A k \in 1..Len(ret.val.fields) :
            Described(ret.file, ret.val.fields[k],
                      RawNames(ret.file, At(Index(ret.file).structures, ret.sdna))[k],
                      At(Index(ret.file).structures, ret.sdna).fields[k].index_type)

\* Mat on the 64-bit file: a 2x3 array of floats and an array of 2 pointers
C24_Witness ==
    /\ ret.op = "export" /\ ret.file = 7 /\ ret.val.name = "Mat"
    /\ \E k \in 1..Len(ret.val.fields) :
          /\ ret.val.fields[k].name = <<"c", "o", "l">>
          /\ ret.val.fields[k].size = 24 /\ ret.val.fields[k].count = 6
    /\ \E k \in 1..Len(ret.val.fields) :
          /\ ret.val.fields[k].name = <<"t", "e", "x">>
          /\ ret.val.fields[k].ptr /\ ret.val.fields[k].size = 16

\* ------------------------------------------------------------------ C22
\* the code and the size a block header at file offset pos declares
HeaderAt(bytes, header, pos) ==
    The({IF un.err # "" THEN [err |-> un.err, code |-> <<>>, size |-> 0]
         ELSE [err |-> "", code |-> un.vals[1].v, size |-> un.vals[2].v[1]] :
            un \in {NamedStructUnpack(HeadFMT(header),
                        PySlice(bytes, pos, pos + FmtSize(HeadFMT(header).fmt)))}})

\* the headers of the file in on-disk order: the first at offset 12, each
\* next one at the payload offset of the one before plus its size, down to
\* the ENDB header, the end of the file, a header that cannot be read or an
\* offset a header was read at before (seen)
RECURSIVE ChainFrom(_, _, _, _)
ChainMore(bytes, header, pos, seen, head) ==
    IF head.err # "" THEN <<>>
    ELSE <<[pos |-> pos, code |-> head.code, size |-> head.size]>>
         \o (IF head.code = Endb THEN <<>>
             ELSE ChainFrom(bytes, header,
                            pos + FmtSize(HeadFMT(header).fmt) + head.size,
                            seen \cup {pos}))

ChainFrom(bytes, header, pos, seen) ==
    IF pos \in seen \/ pos < 0 \/ pos = Len(bytes) THEN <<>>
    ELSE The({ChainMore(bytes, header, pos, seen, head) :
                 head \in {HeaderAt(bytes, header, pos)}})

Chain(fr) == ChainFrom(OpenBytes(fr.input), fr.header, 12, {})

\* the directory the chain stands for: code and payload offset of the blocks
\* that are neither DNA1 nor ENDB
Listed(chain, hs) ==
    SelectSeq([k \in 1..Len(chain) |->
                  IF chain[k].code \in {Dna1, Endb} THEN <<>>
                  ELSE <<chain[k].code, chain[k].size, chain[k].pos + hs>>],
              LAMBDA x : x # <<>>)

Directory(file_block_heads) ==
    [k \in 1..Len(file_block_heads) |->
        <<file_block_heads[k].head.code, file_block_heads[k].head.size,
          file_block_heads[k].offset>>]

\* where the walk stands between two headers: at offset 12 or behind the
\* payload of a header of the chain
Between(chain, hs) == {12} \cup {chain[k].pos + hs + chain[k].size : k \in 1..Len(chain)}

DirectoryOf(fr, chain, hs) ==
    /\ fr.step = "blocks" => fr.pos \in Between(chain, hs)
    /\ fr.step = "done" /\ fr.kind = "ok"
          => Directory(fr.file_block_heads) = Listed(chain, hs)

StoredAt(fr, entry, at) ==
    LittleOrder(PySlice(OpenBytes(fr.input),
                        entry.offset - FmtSize(HeadFMT(fr.header).fmt) + at,
                        entry.offset - FmtSize(HeadFMT(fr.header).fmt) + at + 4),
                fr.header.endian)

\* v is what the four stored bytes decode to as an unsigned integer: it is
\* not negative, and its bytes are the stored ones
IsUnsigned32(v, stored) == v >= 0 /\ LEBytes(v, 4) = stored

UnsignedHeads(fr) ==
    \A k \in 1..Len(fr.file_block_heads) :
        \E entry \in {fr.file_block_heads[k]}, hs \in {FmtSize(HeadFMT(fr.header).fmt)} :
            /\ IsUnsigned32(entry.head.size, StoredAt(fr, entry, 4))
            /\ IsUnsigned32(entry.head.sdna, StoredAt(fr, entry, hs - 8))
            /\ IsUnsigned32(entry.head.count, StoredAt(fr, entry, hs - 4))

UnsignedIndex(index) ==
    /\ \A k \in 1..Len(index.type_sizes) : index.type_sizes[k] >= 0
    /\ \A k \in 1..Len(index.structures) :
          /\ index.structures[k].index >= 0
          /\ \A m \in 1..Len(index.structures[k].fields) :
                /\ index.structures[k].fields[m].index_type >= 0
                /\ index.structures[k].fields[m].index_name >= 0

\* C25: the payload size, the schema index and the count of a block header
\* decode as unsigned 32-bit integers, the type sizes and the type and name
\* indices of the SDNA as unsigned 16-bit integers: a stored pattern with the
\* top bit set decodes to a value that is not negative
C25_Unsigned ==
    ret.op = "opening" /\ ret.step = "done" /\ ret.kind = "ok"
        => /\ UnsignedHeads(ret)
           /\ \A k \in 1..Len(ret.blend_index) : UnsignedIndex(ret.blend_index[k])

\* ------------------------------------------------------------------ C26
\* C26: for every file that opens, each component of header.version is one
\* decimal digit in 0..9, taken from the header bytes 9, 10 and 11
C26_VersionDigits ==
    ret.op = "opening" /\ ret.step = "done" /\ ret.kind = "ok"
        => /\ Len(ret.header.version) = 3
           /\ \A k \in 1..3 :
                 /\ ret.header.version[k] \in 0..9
                 /\ ret.header.version[k] = OpenBytes(ret.input)[9 + k] - 48

\* ------------------------------------------------------------------ C27
\* the offset behind the n-th NUL byte at or after offset from; -1 when the
\* payload holds fewer than n of them
RECURSIVE NulEnd(_, _, _)
NulEnd(data, from, n) ==
    IF n <= 0 THEN from
    ELSE IF \A i \in (from + 1)..Len(data) : data[i] # 0 THEN -1
    ELSE NulEnd(data, MinOf({i \in (from + 1)..Len(data) : data[i] = 0}), n - 1)

\* the next multiple of 4
Boundary(offset) == ((offset + 3) \div 4) * 4

\* the count a section declares at offset at
CountAt(data, at, endian) == Signed(SubSeq(data, at + 1, at + 4), endian)

\* a names section is there: its count can be read and is not negative, so
\* many NUL-terminated names follow it, and the names are ASCII
NamesThere(data, at, endian) ==
    /\ at >= 0 /\ Len(data) >= at + 4
    /\ CountAt(data, at, endian) >= 0
    /\ NulEnd(data, at + 4, CountAt(data, at, endian)) >= 0
    /\ \A i \in (at + 5)..NulEnd(data, at + 4, CountAt(data, at, endian)) : data[i] < 128

\* where the tag behind a names section lies
BehindNames(data, at, endian) ==
    Boundary(NulEnd(data, at + 4, CountAt(data, at, endian)))

\* data[at:at+len(tag)] == tag
TagAt(data, at, tag) ==
    /\ Len(data) >= at + Len(tag)
    /\ SubSeq(data, at + 1, at + Len(tag)) = tag

\* the type sizes are there: two bytes per type name
SizesThere(data, tlen, type_count) == Len(data) >= tlen + 4 + 2 * type_count

SizesMismatch(data, tlen, type_count) ==
    /\ SizesThere(data, tlen, type_count)
    /\ ~TagAt(data, Boundary(tlen + 4 + 2 * type_count), <<83, 84, 82, 67>>)

TypesMismatch(data, type, endian) ==
    /\ NamesThere(data, type + 4, endian)
    /\ \E tlen \in {BehindNames(data, type + 4, endian)} :
          \/ ~TagAt(data, tlen, <<84, 76, 69, 78>>)
          \/ SizesMismatch(data, tlen, CountAt(data, type + 4, endian))

NamesMismatch(data, endian) ==
    /\ NamesThere(data, 8, endian)
    /\ \E type \in {BehindNames(data, 8, endian)} :
          \/ ~TagAt(data, type, <<84, 89, 80, 69>>)
          \/ TypesMismatch(data, type, endian)

\* one of the four tags of the payload is not where it belongs
TagMismatch(data, endian) ==
    \/ ~TagAt(data, 0, <<83, 68, 78, 65, 78, 65, 77, 69>>)
    \/ NamesMismatch(data, endian)

\* header k of the chain is the first DNA1 header, and its payload lies in
\* the file in full
SchemaIn(bytes, chain, k, hs) ==
    /\ chain[k].code = Dna1
    /\ \A m \in 1..(k - 1) : chain[m].code # Dna1
    /\ chain[k].size >= 0
    /\ chain[k].pos + hs + chain[k].size <= Len(bytes)

SchemaPayload(bytes, head, hs) == SubSeq(bytes, head.pos + hs + 1, head.pos + hs + head.size)

MalformedIndex(fr, head) ==
    /\ fr.kind = "BlenderFileImportException"
    /\ fr.blend_index = <<>>
    /\ fr.pos = head.pos

BadSchema(fr, bytes, chain, hs) ==
    \A k \in 1..Len(chain) :
        SchemaIn(bytes, chain, k, hs)
          /\ TagMismatch(SchemaPayload(bytes, chain[k], hs), fr.header.endian)
        => MalformedIndex(fr, chain[k])

\* C27: parsing the SDNA fails with BlenderFileImportException ('Malformed
\* index') whenever the payload does not start with 'SDNANAME', or the four
\* bytes at the next 4-byte boundary behind the names, the type names or the
\* type sizes are not 'TYPE', 'TLEN' and 'STRC'
C27_BadSchema ==
    ret.op = "opening" /\ ret.step = "done" /\ ret.header # HeaderNone
        => \E bytes \in {OpenBytes(ret.input)}, chain \in {Chain(ret)},
              hs \in {FmtSize(HeadFMT(ret.header).fmt)} :
                 BadSchema(ret, bytes, chain, hs)

\* an open has failed on a payload whose TLEN tag is damaged
C27_Witness ==
    /\ ret.op = "opening" /\ ret.step = "done"
    /\ ret.input.damage = "tagtlen"
    /\ ret.input.cut = Len(Written(ret.input))
    /\ ret.kind = "BlenderFileImportException"
    /\ ret.blend_index = <<>>
    /\ \E chain \in {Chain(ret)} :
          \E k \in 1..Len(chain) :
              chain[k].code = Dna1 /\ ret.pos = chain[k].pos

\* ------------------------------------------------------------------ C28
\* C28: for every input file with a valid header the walk over the blocks
\* comes to an end, with a directory or with an error, also when a block
\* header declares a size that is zero, negative as a signed 32-bit value or
\* larger than the rest of the file
C28_Terminates == <>(ret.op = "opening" /\ ret.step = "done")

====
